---- MODULE Spec2Model ----
(***************************************************************************)
(* nymea-gpio: the Gpio line handle of libnymea-gpio in its libgpiod       *)
(* build (NYMEA_GPIO_USE_SYSFS undefined), together with the part of the   *)
(* kernel / libgpiod line state the handle's calls read and change.        *)
(***************************************************************************)
EXTENDS Integers, Sequences, FiniteSets, TLC

(* ------------------------------------------------------------------ *)
(* Bounds of the model                                                 *)
(* ------------------------------------------------------------------ *)
\* logical GPIO numbers handed to the constructor are 0..MaxGpio
MaxGpio == 3
\* descriptors the kernel may hand out for an event request are 3..MaxFd
MaxFd == 4

GpioNumbers == 0..MaxGpio
FdSet == 3..MaxFd

(* ------------------------------------------------------------------ *)
(* Enumerations of class Gpio                                          *)
(* ------------------------------------------------------------------ *)
DirectionInvalid == "DirectionInvalid"
DirectionInput == "DirectionInput"
DirectionOutput == "DirectionOutput"
Direction == {DirectionInvalid, DirectionInput, DirectionOutput}

ValueInvalid == -1
ValueLow == 0
ValueHigh == 1
Value == {ValueInvalid, ValueLow, ValueHigh}

EdgeFalling == "EdgeFalling"
EdgeRising == "EdgeRising"
EdgeBoth == "EdgeBoth"
EdgeNone == "EdgeNone"
Edge == {EdgeFalling, EdgeRising, EdgeBoth, EdgeNone}

(* ------------------------------------------------------------------ *)
(* The platform: GPIO controllers present on the system.               *)
(* dev is the character device name (gpiochip<index>), sysfs the       *)
(* /sys/class/gpio entry (gpiochip<base>; "" when the legacy class is  *)
(* absent), base and ngpio the global number range as sysfs reports    *)
(* it.  The last set has a gap between the ranges of its controllers.  *)
(* ------------------------------------------------------------------ *)
ChipConfigs ==
    { << [dev |-> "gpiochip0", sysfs |-> "gpiochip0", base |-> 0, ngpio |-> 2] >>,
      << [dev |-> "gpiochip0", sysfs |-> "", base |-> 0, ngpio |-> 2],
         [dev |-> "gpiochip1", sysfs |-> "", base |-> 2, ngpio |-> 1] >>,
      << [dev |-> "gpiochip0", sysfs |-> "gpiochip0", base |-> 0, ngpio |-> 1],
         [dev |-> "gpiochip1", sysfs |-> "gpiochip1", base |-> 1, ngpio |-> 2] >>,
      << [dev |-> "gpiochip0", sysfs |-> "gpiochip0", base |-> 0, ngpio |-> 1],
         [dev |-> "gpiochip1", sysfs |-> "gpiochip2", base |-> 2, ngpio |-> 1] >> }

VARIABLES
    chips,          \* the controllers of the platform (fixed during a run)
    m_gpio,         \* Gpio::m_gpio
    m_direction,    \* Gpio::m_direction
    m_edge,         \* Gpio::m_edge
    m_activeLow,    \* Gpio::m_activeLow
    m_chipName,     \* Gpio::m_chipName ("" = not resolved)
    m_lineOffset,   \* Gpio::m_lineOffset (-1 until resolved)
    m_chip,         \* Gpio::m_chip  (TRUE = non-null, controller open)
    m_line,         \* Gpio::m_line  (TRUE = non-null)
    line,           \* libgpiod/kernel state of the line: the active request
    phys,           \* physical level of the line, 0 or 1
    prevWrite,      \* X when the operation before the last was a successful
                    \* setValue(X), ValueInvalid otherwise
    lastOp,         \* the operation that ran last
    lastArg,        \* its argument
    lastRet,        \* its return value
    kcalls,         \* the libgpiod calls it made, in order
    mon,            \* GpioMonitor members: m_edge, m_activeLow, m_enabled,
                    \* m_value, m_stop, and the holders of m_stopMutex and
                    \* m_valueMutex ("free", "owner" or "worker")
    thread,         \* QThread state of the monitor: running, inFinish
    wpc,            \* where the worker thread is in run()
    opc,            \* where the owning thread is
    rc,             \* run(): result of the last poll()
    valueString,    \* run(): level read from the value file ("" = none)
    ioError,        \* run(): errno of the poll or read that failed in the
                    \* current pass of the loop, "none" otherwise
    unread,         \* transitions the value file has notified since it was
                    \* last read (POLLPRI is pending while there are any)
    covered,        \* the transitions the worker's current read stands for
    events,         \* the latest interruptOccured(bool) emissions, the last
                    \* two at most
    enabledChanges, \* the latest enabledChanged(bool) emission, none before
                    \* the first
    cli,            \* nymea-gpio-tool: its options, where main() is, what it
                    \* has parsed, and the exit status of the process
    button          \* GpioButton: its members, its QTimer and QTime, and the
                    \* signals its last handler emitted

\* the monitor's part of the state
monVars == << mon, thread, wpc, opc, rc, valueString, ioError, unread, covered,
             events, enabledChanges, button >>

vars == << chips, m_gpio, m_direction, m_edge, m_activeLow, m_chipName,
           m_lineOffset, m_chip, m_line, line, phys,
           prevWrite, lastOp, lastArg, lastRet, kcalls, monVars, cli >>

\* an option that is not on the command line
NotSet == [isSet |-> FALSE, text |-> ""]

\* no command line tool runs
NoCli == [pc |-> "none", gpio |-> NotSet, interrupt |-> NotSet, value |-> NotSet,
          monitor |-> FALSE, activeLow |-> FALSE, gpioNumber |-> -1,
          edge |-> EdgeBoth, setValue |-> ValueInvalid, exitCode |-> -1,
          quit |-> FALSE]

\* QTimer::QTimer: not active, not single shot, interval 0
NoTimer == [active |-> FALSE, singleShot |-> FALSE, interval |-> 0, left |-> 0]

\* the default of GpioButton::m_longPressedTimeout, in milliseconds
DefaultLongPressedTimeout == 250

\* GpioButton::GpioButton: the members' initialisers: no monitor, no timer,
\* m_time not started.  since is the time in milliseconds since m_time was
\* restarted; held tells that pressed() was emitted and neither released()
\* nor a disable() since; longPressedCount counts the longPressed() of this
\* press; emitted is what the last handler emitted.
GpioButtonConstructed ==
    [m_repeateLongPressed |-> FALSE,
     m_longPressedTimeout |-> DefaultLongPressedTimeout,
     m_monitor |-> FALSE, m_timer |-> FALSE, timer |-> NoTimer,
     started |-> FALSE, since |-> 0,
     held |-> FALSE, longPressedCount |-> 0, emitted |-> << >>]

\* GpioMonitor::GpioMonitor: the members' initialisers, no thread yet
MonitorConstructed ==
    /\ mon = [m_edge |-> EdgeBoth, m_activeLow |-> TRUE, m_enabled |-> FALSE,
              m_value |-> ValueInvalid, m_stop |-> FALSE,
              m_stopMutex |-> "free", m_valueMutex |-> "free"]
    /\ thread = [running |-> FALSE, inFinish |-> FALSE]
    /\ wpc = "idle"
    /\ opc = "idle"
    /\ rc = -1
    /\ valueString = ""
    /\ ioError = "none"
    /\ unread = 0
    /\ covered = 0
    /\ events = << >>
    /\ enabledChanges = << >>

(* ------------------------------------------------------------------ *)
(* libgpiod line state                                                 *)
(* ------------------------------------------------------------------ *)
\* a line without a request
FreeLine == [kind |-> "free", edge |-> EdgeNone, activeLow |-> FALSE, fd |-> -1]

\* gpiod_line_is_requested
gpiod_line_is_requested(l) == l.kind \in {"input", "events", "output"}

\* gpiod_line_get_value on a requested line whose ioctl succeeds: the kernel
\* applies the request's own active-low flag
gpiod_line_get_value(l, p) == IF l.activeLow THEN 1 - p ELSE p

\* level driven by an output request given value v under the request's flag
gpiod_drive(activeLowFlag, v) ==
    LET b == IF v = 0 THEN 0 ELSE 1
    IN  IF activeLowFlag THEN 1 - b ELSE b

(* ------------------------------------------------------------------ *)
(* The handle and its line as one record, for composing the methods    *)
(* ------------------------------------------------------------------ *)
Cur == [ m_direction |-> m_direction, m_edge |-> m_edge,
         m_activeLow |-> m_activeLow, m_chipName |-> m_chipName,
         m_lineOffset |-> m_lineOffset, m_chip |-> m_chip,
         m_line |-> m_line, line |-> line, phys |-> phys ]

\* result of a method: the state after it, its return value, its libgpiod calls
Res(s, ret, calls) == [s |-> s, ret |-> ret, calls |-> calls]

\* one libgpiod call and whether it succeeded
K(fn, ok) == [fn |-> fn, ok |-> ok]

(* ------------------------------------------------------------------ *)
(* Chip resolution                                                     *)
(* ------------------------------------------------------------------ *)
\* resolveLineFromSysfs: first /sys/class/gpio/gpiochip* entry whose
\* [base, base+ngpio) holds the number; 0 when there is none
RECURSIVE sysfsScan(_, _, _)
sysfsScan(cs, n, i) ==
    IF i > Len(cs) THEN 0
    ELSE IF cs[i].sysfs # "" /\ n >= cs[i].base /\ n < cs[i].base + cs[i].ngpio
         THEN i
         ELSE sysfsScan(cs, n, i + 1)

resolveLineFromSysfs(cs, n) ==
    LET i == sysfsScan(cs, n, 1)
    IN  IF i = 0 THEN [ok |-> FALSE, chipName |-> "", offset |-> 0]
        ELSE [ok |-> TRUE, chipName |-> cs[i].sysfs, offset |-> n - cs[i].base]

\* resolveLineSequential: walk the chips in iteration order, bases accumulated
RECURSIVE seqScan(_, _, _, _)
seqScan(cs, n, i, base) ==
    IF i > Len(cs) THEN [ok |-> FALSE, chipName |-> "", offset |-> 0]
    ELSE IF n < base + cs[i].ngpio
         THEN [ok |-> TRUE, chipName |-> cs[i].dev, offset |-> n - base]
         ELSE seqScan(cs, n, i + 1, base + cs[i].ngpio)

resolveLineSequential(cs, n) ==
    IF n < 0 THEN [ok |-> FALSE, chipName |-> "", offset |-> 0]
    ELSE seqScan(cs, n, 1, 0)

\* Gpio::resolveLine
resolveLine(s, cs, n) ==
    IF s.m_chipName # "" THEN Res(s, TRUE, << >>)
    ELSE LET a == resolveLineFromSysfs(cs, n)
             b == resolveLineSequential(cs, n)
         IN  IF a.ok
             THEN Res([s EXCEPT !.m_chipName = a.chipName, !.m_lineOffset = a.offset], TRUE, << >>)
             ELSE IF b.ok
             THEN Res([s EXCEPT !.m_chipName = b.chipName, !.m_lineOffset = b.offset], TRUE, << >>)
             ELSE Res(s, FALSE, << >>)

\* the controller gpiod_chip_open_by_name finds for a name; 0 when none
RECURSIVE chipByName(_, _, _)
chipByName(cs, name, i) ==
    IF i > Len(cs) THEN 0
    ELSE IF cs[i].dev = name THEN i ELSE chipByName(cs, name, i + 1)

\* Gpio::gpioDirectory: the path of the controller's device, its components
\* as a sequence; the empty sequence is the empty string
gpioDirectory(s) ==
    IF s.m_chipName = "" THEN << >> ELSE << "/dev", s.m_chipName >>

(* ------------------------------------------------------------------ *)
(* Gpio::exportGpio                                                    *)
(* openOk, lineOk: whether the platform lets the open / get_line pass  *)
(* ------------------------------------------------------------------ *)
\* variant: no look at whether the handle is opened already
exportGpio_reopen(s, cs, n, openOk, lineOk) ==
      LET r == resolveLine(s, cs, n) IN
      IF ~r.ret THEN Res(s, FALSE, << >>)
      ELSE
        LET c == chipByName(cs, r.s.m_chipName, 1) IN
        IF c = 0 \/ ~openOk
        THEN Res([r.s EXCEPT !.m_chip = FALSE], FALSE, << K("chip_open", FALSE) >>)
        ELSE IF r.s.m_lineOffset >= cs[c].ngpio \/ ~lineOk
        THEN Res([r.s EXCEPT !.m_chip = FALSE], FALSE,
                 << K("chip_open", TRUE), K("chip_get_line", FALSE),
                    K("chip_close", TRUE) >>)
        ELSE Res([r.s EXCEPT !.m_chip = TRUE, !.m_line = TRUE], TRUE,
                 << K("chip_open", TRUE), K("chip_get_line", TRUE) >>)

\* variant: a controller whose line could not be got stays open
exportGpio_keepChip(s, cs, n, openOk, lineOk) ==
    IF s.m_line /\ s.m_chip THEN Res(s, TRUE, << >>)
    ELSE
      LET r == resolveLine(s, cs, n) IN
      IF ~r.ret THEN Res(s, FALSE, << >>)
      ELSE
        LET c == chipByName(cs, r.s.m_chipName, 1) IN
        IF c = 0 \/ ~openOk
        THEN Res([r.s EXCEPT !.m_chip = FALSE], FALSE, << K("chip_open", FALSE) >>)
        ELSE IF r.s.m_lineOffset >= cs[c].ngpio \/ ~lineOk
        THEN Res([r.s EXCEPT !.m_chip = TRUE], FALSE,
                 << K("chip_open", TRUE), K("chip_get_line", FALSE) >>)
        ELSE Res([r.s EXCEPT !.m_chip = TRUE, !.m_line = TRUE], TRUE,
                 << K("chip_open", TRUE), K("chip_get_line", TRUE) >>)

\* Gpio::exportGpio
exportGpio(s, cs, n, openOk, lineOk) ==
    IF s.m_line /\ s.m_chip THEN Res(s, TRUE, << >>)
    ELSE
      LET r == resolveLine(s, cs, n) IN
      IF ~r.ret THEN Res(s, FALSE, << >>)
      ELSE
        LET c == chipByName(cs, r.s.m_chipName, 1) IN
        IF c = 0 \/ ~openOk
        THEN Res([r.s EXCEPT !.m_chip = FALSE], FALSE, << K("chip_open", FALSE) >>)
        ELSE IF r.s.m_lineOffset >= cs[c].ngpio \/ ~lineOk
        THEN Res([r.s EXCEPT !.m_chip = FALSE], FALSE,
                 << K("chip_open", TRUE), K("chip_get_line", FALSE),
                    K("chip_close", TRUE) >>)
        ELSE Res([r.s EXCEPT !.m_chip = TRUE, !.m_line = TRUE], TRUE,
                 << K("chip_open", TRUE), K("chip_get_line", TRUE) >>)

(* ------------------------------------------------------------------ *)
(* Gpio::unexportGpio                                                  *)
(* ------------------------------------------------------------------ *)
\* variant: the cached direction and edge mode survive the release
unexportGpio_keepConfig(s) ==
    LET rel == s.m_line /\ gpiod_line_is_requested(s.line)
        c1 == IF rel THEN << K("line_release", TRUE) >> ELSE << >>
        c2 == IF s.m_chip THEN << K("chip_close", TRUE) >> ELSE << >>
    IN  Res([s EXCEPT !.line = IF s.m_line THEN FreeLine ELSE s.line,
                      !.m_line = FALSE, !.m_chip = FALSE],
            TRUE, c1 \o c2)

\* variant: the handle forgets the line and the controller without releasing
\* the request or closing the controller
unexportGpio_forget(s) ==
    Res([s EXCEPT !.m_line = FALSE, !.m_chip = FALSE,
                  !.m_direction = DirectionInvalid, !.m_edge = EdgeNone],
        TRUE, << >>)

\* Gpio::unexportGpio
unexportGpio(s) ==
    LET rel == s.m_line /\ gpiod_line_is_requested(s.line)
        c1 == IF rel THEN << K("line_release", TRUE) >> ELSE << >>
        c2 == IF s.m_chip THEN << K("chip_close", TRUE) >> ELSE << >>
    IN  Res([s EXCEPT !.line = IF s.m_line THEN FreeLine ELSE s.line,
                      !.m_line = FALSE, !.m_chip = FALSE,
                      !.m_direction = DirectionInvalid, !.m_edge = EdgeNone],
            TRUE, c1 \o c2)

(* ------------------------------------------------------------------ *)
(* Gpio::requestLine                                                   *)
(* grant: whether the kernel grants the request; fd: the descriptor it *)
(* hands out for an event request.  Every request passes flags 0.      *)
(* ------------------------------------------------------------------ *)
\* variant: every event request asks for both edges
requestLine_bothEdges(s, direction, edge, outputValue, grant, fd) ==
    IF ~s.m_line THEN Res(s, FALSE, << >>)
    ELSE
      LET wasReq == gpiod_line_is_requested(s.line)
          c1 == IF wasReq THEN << K("line_release", TRUE) >> ELSE << >>
          s1 == [s EXCEPT !.line = FreeLine]
      IN
      IF direction = DirectionOutput
      THEN IF grant
           THEN Res([s1 EXCEPT !.line = [kind |-> "output", edge |-> EdgeNone,
                                         activeLow |-> FALSE, fd |-> -1],
                               !.phys = gpiod_drive(FALSE, outputValue)],
                    TRUE, c1 \o << K("line_request_output", TRUE) >>)
           ELSE Res(s1, FALSE, c1 \o << K("line_request_output", FALSE) >>)
      ELSE IF edge = EdgeNone
      THEN IF grant
           THEN Res([s1 EXCEPT !.line = [kind |-> "input", edge |-> EdgeNone,
                                         activeLow |-> FALSE, fd |-> -1]],
                    TRUE, c1 \o << K("line_request_input", TRUE) >>)
           ELSE Res(s1, FALSE, c1 \o << K("line_request_input", FALSE) >>)
      ELSE IF grant
           THEN Res([s1 EXCEPT !.line = [kind |-> "events", edge |-> EdgeBoth,
                                         activeLow |-> FALSE, fd |-> fd]],
                    TRUE, c1 \o << K("line_request_events", TRUE) >>)
           ELSE Res(s1, FALSE, c1 \o << K("line_request_events", FALSE) >>)

\* variant: the new request is issued without releasing the one held
requestLine_noRelease(s, direction, edge, outputValue, grant, fd) ==
    IF ~s.m_line THEN Res(s, FALSE, << >>)
    ELSE
      LET wasReq == gpiod_line_is_requested(s.line)
          c1 == << >>
          s1 == [s EXCEPT !.line = FreeLine]
      IN
      IF direction = DirectionOutput
      THEN IF grant
           THEN Res([s1 EXCEPT !.line = [kind |-> "output", edge |-> EdgeNone,
                                         activeLow |-> FALSE, fd |-> -1],
                               !.phys = gpiod_drive(FALSE, outputValue)],
                    TRUE, c1 \o << K("line_request_output", TRUE) >>)
           ELSE Res(s1, FALSE, c1 \o << K("line_request_output", FALSE) >>)
      ELSE IF edge = EdgeNone
      THEN IF grant
           THEN Res([s1 EXCEPT !.line = [kind |-> "input", edge |-> EdgeNone,
                                         activeLow |-> FALSE, fd |-> -1]],
                    TRUE, c1 \o << K("line_request_input", TRUE) >>)
           ELSE Res(s1, FALSE, c1 \o << K("line_request_input", FALSE) >>)
      ELSE IF grant
           THEN Res([s1 EXCEPT !.line = [kind |-> "events", edge |-> edge,
                                         activeLow |-> FALSE, fd |-> fd]],
                    TRUE, c1 \o << K("line_request_events", TRUE) >>)
           ELSE Res(s1, FALSE, c1 \o << K("line_request_events", FALSE) >>)

\* Gpio::requestLine
requestLine(s, direction, edge, outputValue, grant, fd) ==
    IF ~s.m_line THEN Res(s, FALSE, << >>)
    ELSE
      LET wasReq == gpiod_line_is_requested(s.line)
          c1 == IF wasReq THEN << K("line_release", TRUE) >> ELSE << >>
          s1 == [s EXCEPT !.line = FreeLine]
      IN
      IF direction = DirectionOutput
      THEN IF grant
           THEN Res([s1 EXCEPT !.line = [kind |-> "output", edge |-> EdgeNone,
                                         activeLow |-> FALSE, fd |-> -1],
                               !.phys = gpiod_drive(FALSE, outputValue)],
                    TRUE, c1 \o << K("line_request_output", TRUE) >>)
           ELSE Res(s1, FALSE, c1 \o << K("line_request_output", FALSE) >>)
      ELSE IF edge = EdgeNone
      THEN IF grant
           THEN Res([s1 EXCEPT !.line = [kind |-> "input", edge |-> EdgeNone,
                                         activeLow |-> FALSE, fd |-> -1]],
                    TRUE, c1 \o << K("line_request_input", TRUE) >>)
           ELSE Res(s1, FALSE, c1 \o << K("line_request_input", FALSE) >>)
      ELSE IF grant
           THEN Res([s1 EXCEPT !.line = [kind |-> "events", edge |-> edge,
                                         activeLow |-> FALSE, fd |-> fd]],
                    TRUE, c1 \o << K("line_request_events", TRUE) >>)
           ELSE Res(s1, FALSE, c1 \o << K("line_request_events", FALSE) >>)

(* ------------------------------------------------------------------ *)
(* Gpio::logicalToPhysicalValue / Gpio::physicalToLogicalValue         *)
(* ------------------------------------------------------------------ *)
\* variant: the polarity is not applied on writes
logicalToPhysicalValue_noInvert(value, activeLow) ==
    IF value = ValueLow THEN 0
    ELSE IF value = ValueHigh THEN 1
    ELSE -1

logicalToPhysicalValue(value, activeLow) ==
    IF value = ValueLow THEN (IF activeLow THEN 1 ELSE 0)
    ELSE IF value = ValueHigh THEN (IF activeLow THEN 0 ELSE 1)
    ELSE -1

\* variant: the polarity is not applied on reads
physicalToLogicalValue_noInvert(value, activeLow) ==
    IF value < 0 THEN ValueInvalid
    ELSE IF value # 0 THEN ValueHigh ELSE ValueLow

physicalToLogicalValue(value, activeLow) ==
    IF value < 0 THEN ValueInvalid
    ELSE LET physicalHigh == value # 0
             logicalHigh == IF activeLow THEN ~physicalHigh ELSE physicalHigh
         IN  IF logicalHigh THEN ValueHigh ELSE ValueLow

(* ------------------------------------------------------------------ *)
(* Gpio::setDirection                                                  *)
(* openOk, lineOk, readOk, grant: the platform's answers to the calls  *)
(* the method makes.  It never requests events, so no descriptor.      *)
(* ------------------------------------------------------------------ *)
\* variant: the level handed to the output request is the logical value
setDirection_logicalInitial(s, cs, n, direction, openOk, lineOk, readOk, grant) ==
    IF direction = DirectionInvalid THEN Res(s, FALSE, << >>)
    ELSE
      LET e == IF ~s.m_line
               THEN exportGpio(s, cs, n, openOk, lineOk)
               ELSE Res(s, TRUE, << >>)
      IN
      IF ~e.ret THEN Res(e.s, FALSE, e.calls)
      ELSE
        LET isReq == e.s.m_line /\ gpiod_line_is_requested(e.s.line)
            current == IF isReq
                       THEN (IF readOk
                             THEN gpiod_line_get_value(e.s.line, e.s.phys)
                             ELSE -1)
                       ELSE -1
            outputValue == IF current >= 0
                           THEN physicalToLogicalValue(current, e.s.m_activeLow)
                           ELSE 0
            c1 == IF isReq THEN << K("line_get_value", readOk) >> ELSE << >>
            q == requestLine(e.s, direction, EdgeNone, outputValue, grant, -1)
        IN
        IF ~q.ret THEN Res(q.s, FALSE, e.calls \o c1 \o q.calls)
        ELSE Res([q.s EXCEPT !.m_direction = direction,
                             !.m_edge = IF direction = DirectionOutput
                                        THEN EdgeNone ELSE q.s.m_edge],
                 TRUE, e.calls \o c1 \o q.calls)

\* variant: an invalid direction is not rejected
setDirection_noInvalidCheck(s, cs, n, direction, openOk, lineOk, readOk, grant) ==
    IF FALSE THEN Res(s, FALSE, << >>)
    ELSE
      LET e == IF ~s.m_line
               THEN exportGpio(s, cs, n, openOk, lineOk)
               ELSE Res(s, TRUE, << >>)
      IN
      IF ~e.ret THEN Res(e.s, FALSE, e.calls)
      ELSE
        LET isReq == e.s.m_line /\ gpiod_line_is_requested(e.s.line)
            current == IF isReq
                       THEN (IF readOk
                             THEN gpiod_line_get_value(e.s.line, e.s.phys)
                             ELSE -1)
                       ELSE -1
            outputValue == IF current >= 0 THEN current ELSE 0
            c1 == IF isReq THEN << K("line_get_value", readOk) >> ELSE << >>
            q == requestLine(e.s, direction, EdgeNone, outputValue, grant, -1)
        IN
        IF ~q.ret THEN Res(q.s, FALSE, e.calls \o c1 \o q.calls)
        ELSE Res([q.s EXCEPT !.m_direction = direction,
                             !.m_edge = IF direction = DirectionOutput
                                        THEN EdgeNone ELSE q.s.m_edge],
                 TRUE, e.calls \o c1 \o q.calls)

setDirection(s, cs, n, direction, openOk, lineOk, readOk, grant) ==
    IF direction = DirectionInvalid THEN Res(s, FALSE, << >>)
    ELSE
      LET e == IF ~s.m_line
               THEN exportGpio(s, cs, n, openOk, lineOk)
               ELSE Res(s, TRUE, << >>)
      IN
      IF ~e.ret THEN Res(e.s, FALSE, e.calls)
      ELSE
        LET isReq == e.s.m_line /\ gpiod_line_is_requested(e.s.line)
            current == IF isReq
                       THEN (IF readOk
                             THEN gpiod_line_get_value(e.s.line, e.s.phys)
                             ELSE -1)
                       ELSE -1
            outputValue == IF current >= 0 THEN current ELSE 0
            c1 == IF isReq THEN << K("line_get_value", readOk) >> ELSE << >>
            q == requestLine(e.s, direction, EdgeNone, outputValue, grant, -1)
        IN
        IF ~q.ret THEN Res(q.s, FALSE, e.calls \o c1 \o q.calls)
        ELSE Res([q.s EXCEPT !.m_direction = direction,
                             !.m_edge = IF direction = DirectionOutput
                                        THEN EdgeNone ELSE q.s.m_edge],
                 TRUE, e.calls \o c1 \o q.calls)

\* Gpio::direction
direction(s) == s.m_direction

(* ------------------------------------------------------------------ *)
(* Gpio::setValue        writeOk: whether the kernel write passes      *)
(* ------------------------------------------------------------------ *)
\* variant: a handle that is not an output is turned into one for the write
setValue_autoRequest(s, value, writeOk) ==
    IF value = ValueInvalid THEN Res(s, FALSE, << >>)
    ELSE
      LET physicalValue == logicalToPhysicalValue(value, s.m_activeLow)
          q == IF s.m_direction # DirectionOutput
               THEN requestLine(s, DirectionOutput, EdgeNone, physicalValue, TRUE, -1)
               ELSE Res(s, TRUE, << >>)
          s2 == [q.s EXCEPT !.m_direction = IF q.ret THEN DirectionOutput
                                            ELSE q.s.m_direction]
      IN
      IF ~s2.m_line \/ ~gpiod_line_is_requested(s2.line) THEN Res(s2, FALSE, q.calls)
      ELSE IF s2.line.kind # "output" \/ ~writeOk
      THEN Res(s2, FALSE, q.calls \o << K("line_set_value", FALSE) >>)
      ELSE Res([s2 EXCEPT !.phys = gpiod_drive(s2.line.activeLow, physicalValue)],
               TRUE, q.calls \o << K("line_set_value", TRUE) >>)

setValue(s, value, writeOk) ==
    IF value = ValueInvalid THEN Res(s, FALSE, << >>)
    ELSE IF s.m_direction = DirectionInput THEN Res(s, FALSE, << >>)
    ELSE IF s.m_direction = DirectionInvalid THEN Res(s, FALSE, << >>)
    ELSE IF ~s.m_line \/ ~gpiod_line_is_requested(s.line) THEN Res(s, FALSE, << >>)
    ELSE
      LET physicalValue == logicalToPhysicalValue(value, s.m_activeLow) IN
      IF physicalValue < 0 THEN Res(s, FALSE, << >>)
      ELSE IF s.line.kind # "output" \/ ~writeOk
      THEN Res(s, FALSE, << K("line_set_value", FALSE) >>)
      ELSE Res([s EXCEPT !.phys = gpiod_drive(s.line.activeLow, physicalValue)],
               TRUE, << K("line_set_value", TRUE) >>)

(* ------------------------------------------------------------------ *)
(* Gpio::value           readOk: whether the kernel read passes        *)
(* ------------------------------------------------------------------ *)
\* variant: the line is read without a look at whether it is there and
\* requested
value_unguarded(s, readOk) ==
    LET v == IF readOk THEN gpiod_line_get_value(s.line, s.phys) ELSE -1
    IN  IF v < 0 THEN Res(s, ValueInvalid, << K("line_get_value", FALSE) >>)
        ELSE Res(s, physicalToLogicalValue(v, s.m_activeLow),
                 << K("line_get_value", TRUE) >>)

\* Gpio::value
value(s, readOk) ==
    IF ~s.m_line \/ ~gpiod_line_is_requested(s.line)
    THEN Res(s, ValueInvalid, << >>)
    ELSE LET v == IF readOk THEN gpiod_line_get_value(s.line, s.phys) ELSE -1
         IN  IF v < 0 THEN Res(s, ValueInvalid, << K("line_get_value", FALSE) >>)
             ELSE Res(s, physicalToLogicalValue(v, s.m_activeLow),
                      << K("line_get_value", TRUE) >>)

(* ------------------------------------------------------------------ *)
(* Gpio::setActiveLow / Gpio::activeLow                                *)
(* ------------------------------------------------------------------ *)
\* variant: a changed polarity is pushed into the kernel request
setActiveLow_reissue(s, activeLow) ==
    IF s.m_line /\ gpiod_line_is_requested(s.line) /\ activeLow # s.m_activeLow
    THEN Res([s EXCEPT !.m_activeLow = activeLow, !.line.activeLow = activeLow],
             TRUE, << K("line_release", TRUE), K("line_request_" \o s.line.kind, TRUE) >>)
    ELSE Res([s EXCEPT !.m_activeLow = activeLow], TRUE, << >>)

setActiveLow(s, activeLow) ==
    Res([s EXCEPT !.m_activeLow = activeLow], TRUE, << >>)

activeLow(s) == s.m_activeLow

(* ------------------------------------------------------------------ *)
(* Gpio::setEdgeInterrupt / Gpio::edgeInterrupt                        *)
(* ------------------------------------------------------------------ *)
\* variant: an output handle is not rejected
setEdgeInterrupt_noOutputCheck(s, cs, n, edge, openOk, lineOk, grant, fd) ==
    IF FALSE THEN Res(s, FALSE, << >>)
    ELSE
      LET e == IF ~s.m_line
               THEN exportGpio(s, cs, n, openOk, lineOk)
               ELSE Res(s, TRUE, << >>)
      IN
      IF ~e.ret THEN Res(e.s, FALSE, e.calls)
      ELSE
        LET q == requestLine(e.s, DirectionInput, edge, 0, grant, fd) IN
        IF ~q.ret THEN Res(q.s, FALSE, e.calls \o q.calls)
        ELSE Res([q.s EXCEPT !.m_direction = DirectionInput, !.m_edge = edge],
                 TRUE, e.calls \o q.calls)

\* variant: the edge mode is requested but not cached
setEdgeInterrupt_noEdgeCache(s, cs, n, edge, openOk, lineOk, grant, fd) ==
    IF s.m_direction = DirectionOutput THEN Res(s, FALSE, << >>)
    ELSE
      LET e == IF ~s.m_line
               THEN exportGpio(s, cs, n, openOk, lineOk)
               ELSE Res(s, TRUE, << >>)
      IN
      IF ~e.ret THEN Res(e.s, FALSE, e.calls)
      ELSE
        LET q == requestLine(e.s, DirectionInput, edge, 0, grant, fd) IN
        IF ~q.ret THEN Res(q.s, FALSE, e.calls \o q.calls)
        ELSE Res([q.s EXCEPT !.m_direction = DirectionInput],
                 TRUE, e.calls \o q.calls)

setEdgeInterrupt(s, cs, n, edge, openOk, lineOk, grant, fd) ==
    IF s.m_direction = DirectionOutput THEN Res(s, FALSE, << >>)
    ELSE
      LET e == IF ~s.m_line
               THEN exportGpio(s, cs, n, openOk, lineOk)
               ELSE Res(s, TRUE, << >>)
      IN
      IF ~e.ret THEN Res(e.s, FALSE, e.calls)
      ELSE
        LET q == requestLine(e.s, DirectionInput, edge, 0, grant, fd) IN
        IF ~q.ret THEN Res(q.s, FALSE, e.calls \o q.calls)
        ELSE Res([q.s EXCEPT !.m_direction = DirectionInput, !.m_edge = edge],
                 TRUE, e.calls \o q.calls)

edgeInterrupt(s) == s.m_edge

(* ------------------------------------------------------------------ *)
(* Gpio::eventFd: gpiod_line_event_get_fd yields the request's         *)
(* descriptor only for a line requested with edge events               *)
(* ------------------------------------------------------------------ *)
eventFd(s) ==
    IF ~s.m_line THEN -1
    ELSE IF s.line.kind = "events" THEN s.line.fd ELSE -1

(* ------------------------------------------------------------------ *)
(* State machine                                                       *)
(* ------------------------------------------------------------------ *)
Init ==
    /\ chips \in ChipConfigs
    /\ m_gpio \in GpioNumbers
    /\ m_direction = DirectionInvalid
    /\ m_edge = EdgeNone
    /\ m_activeLow = FALSE
    /\ m_chipName = ""
    /\ m_lineOffset = -1
    /\ m_chip = FALSE
    /\ m_line = FALSE
    /\ line = FreeLine
    /\ phys \in {0, 1}
    /\ prevWrite = ValueInvalid
    /\ lastOp = "Gpio"
    /\ lastArg = m_gpio
    /\ lastRet = TRUE
    /\ kcalls = << >>
    /\ MonitorConstructed
    /\ cli = NoCli
    /\ button = GpioButtonConstructed

\* the value the last operation wrote, if it was a successful setValue
LastWrite ==
    IF lastOp = "setValue" /\ lastRet = TRUE THEN lastArg ELSE ValueInvalid

\* the handle has not been destroyed
HandleAlive == lastOp # "~Gpio"

\* a method ran: its effects on the handle and the line, and its record
Apply(op, arg, r) ==
    /\ HandleAlive
    /\ m_direction' = r.s.m_direction
    /\ m_edge' = r.s.m_edge
    /\ m_activeLow' = r.s.m_activeLow
    /\ m_chipName' = r.s.m_chipName
    /\ m_lineOffset' = r.s.m_lineOffset
    /\ m_chip' = r.s.m_chip
    /\ m_line' = r.s.m_line
    /\ line' = r.s.line
    /\ phys' = r.s.phys
    /\ prevWrite' = LastWrite
    /\ lastOp' = op
    /\ lastArg' = arg
    /\ lastRet' = r.ret
    /\ kcalls' = r.calls
    /\ UNCHANGED << cli, chips, m_gpio, monVars >>

ExportGpio ==
    \E openOk \in BOOLEAN, lineOk \in BOOLEAN :
        Apply("exportGpio", "", exportGpio(Cur, chips, m_gpio, openOk, lineOk))

UnexportGpio ==
    Apply("unexportGpio", "", unexportGpio(Cur))

\* Gpio::~Gpio: the destructor calls unexportGpio(); no method runs after it
DestroyGpio ==
    Apply("~Gpio", "", unexportGpio(Cur))

SetDirection ==
    \E d \in Direction, openOk \in BOOLEAN, lineOk \in BOOLEAN,
       readOk \in BOOLEAN, grant \in BOOLEAN :
        Apply("setDirection", d,
              setDirection(Cur, chips, m_gpio, d, openOk, lineOk, readOk, grant))

SetValue ==
    \E v \in Value, writeOk \in BOOLEAN :
        Apply("setValue", v, setValue(Cur, v, writeOk))

GetValue ==
    \E readOk \in BOOLEAN :
        Apply("value", "", value(Cur, readOk))

SetActiveLow ==
    \E b \in BOOLEAN :
        Apply("setActiveLow", b, setActiveLow(Cur, b))

SetEdgeInterrupt ==
    \E e \in Edge, openOk \in BOOLEAN, lineOk \in BOOLEAN,
       grant \in BOOLEAN, fd \in FdSet :
        Apply("setEdgeInterrupt", e,
              setEdgeInterrupt(Cur, chips, m_gpio, e, openOk, lineOk, grant, fd))

EventFd ==
    Apply("eventFd", "", Res(Cur, eventFd(Cur), << >>))

\* the outside world changes the level of a line the handle does not drive
LineChange ==
    /\ HandleAlive
    /\ line.kind # "output"
    /\ phys' = 1 - phys
    /\ prevWrite' = LastWrite
    /\ lastOp' = "lineChange"
    /\ lastArg' = ""
    /\ lastRet' = TRUE
    /\ kcalls' = << >>
    /\ UNCHANGED << button, cli, chips, m_gpio, m_direction, m_edge, m_activeLow, m_chipName,
                    m_lineOffset, m_chip, m_line, line, monVars >>

Next ==
    \/ ExportGpio
    \/ UnexportGpio
    \/ DestroyGpio
    \/ SetDirection
    \/ SetValue
    \/ GetValue
    \/ SetActiveLow
    \/ SetEdgeInterrupt
    \/ EventFd
    \/ LineChange

Spec == Init /\ [][Next]_vars

TypeOK ==
    /\ m_direction \in Direction
    /\ m_edge \in Edge
    /\ m_activeLow \in BOOLEAN
    /\ m_chip \in BOOLEAN
    /\ m_line \in BOOLEAN
    /\ phys \in {0, 1}
    /\ line.kind \in {"free", "input", "events", "output"}

(* ------------------------------------------------------------------ *)
(* Properties                                                          *)
(* ------------------------------------------------------------------ *)
\* the handle's fields and the line, as one value for frame conditions
HandleState == << m_direction, m_edge, m_activeLow, m_chipName, m_lineOffset,
                  m_chip, m_line, line, phys >>

\* the last operation made call fn and it succeeded / failed
Called(fn, ok) == \E i \in 1..Len(kcalls) : kcalls[i] = K(fn, ok)

IsRequestCall(c) ==
    c.fn \in {"line_request_input", "line_request_events", "line_request_output"}

\* C1 as stated: the value() that directly follows a successful setValue(X)
\* returns X.
C1_RoundTrip ==
    (lastOp = "value" /\ prevWrite # ValueInvalid) => lastRet = prevWrite

\* C1 amended: the value() that directly follows a successful setValue(X)
\* returns X when the kernel read of the line succeeds, under either polarity,
\* and ValueInvalid when that read fails.
C1_RoundTripOnRead ==
    (lastOp = "value" /\ prevWrite # ValueInvalid) =>
        /\ m_direction = DirectionOutput
        /\ Called("line_get_value", TRUE) => lastRet = prevWrite
        /\ Called("line_get_value", FALSE) => lastRet = ValueInvalid
        /\ Len(kcalls) = 1

C1_Witness ==
    /\ lastOp = "value"
    /\ prevWrite = ValueHigh
    /\ lastRet = ValueHigh
    /\ m_activeLow
    /\ phys = 0

\* C2: on every successful write and on every read that yields a level, the
\* physical level is high exactly when (logical value is High) XOR activeLow.
C2_Polarity ==
    /\ (lastOp = "setValue" /\ lastRet = TRUE) =>
           ((phys = 1) <=> ((lastArg = ValueHigh) # m_activeLow))
    /\ (lastOp = "value" /\ lastRet \in {ValueLow, ValueHigh}) =>
           ((phys = 1) <=> ((lastRet = ValueHigh) # m_activeLow))

C2_Witness ==
    /\ lastOp = "setValue"
    /\ lastRet = TRUE
    /\ lastArg = ValueHigh
    /\ m_activeLow
    /\ phys = 0

\* C3: setValue(v) on a handle whose direction is Input or DirectionInvalid,
\* or with v = ValueInvalid, returns false and leaves the handle, the line
\* request and the physical level as they were.
C3_SetValueRejected ==
    [][ (lastOp' = "setValue"
         /\ (m_direction \in {DirectionInput, DirectionInvalid}
             \/ lastArg' = ValueInvalid))
        => (lastRet' = FALSE /\ HandleState' = HandleState) ]_vars

C3_Witness ==
    /\ lastOp = "setValue"
    /\ lastArg = ValueHigh
    /\ lastRet = FALSE
    /\ m_direction = DirectionInput
    /\ line.kind = "input"

\* C4: setEdgeInterrupt(mode) on an Output handle returns false for every
\* mode and leaves direction, cached edge, the output request and its driven
\* level unchanged.
C4_EdgeOnOutputRejected ==
    [][ (lastOp' = "setEdgeInterrupt" /\ m_direction = DirectionOutput)
        => (lastRet' = FALSE /\ HandleState' = HandleState
            /\ m_direction' = DirectionOutput) ]_vars

C4_Witness ==
    /\ lastOp = "setEdgeInterrupt"
    /\ lastArg = EdgeBoth
    /\ lastRet = FALSE
    /\ m_direction = DirectionOutput
    /\ line.kind = "output"
    /\ phys = 1

\* the line can be opened: it is open already, or exportGpio succeeds on a
\* platform that lets the open and the get_line pass
CanOpen == m_line \/ exportGpio(Cur, chips, m_gpio, TRUE, TRUE).ret

\* C5: in every reachable state whose direction is Input or DirectionInvalid
\* and whose line can be opened, setEdgeInterrupt(mode) with the request
\* granted returns true; afterwards direction() is Input, edgeInterrupt() is
\* mode and the line holds an input request with exactly that edge mode
\* (a plain input request for EdgeNone).
C5_EdgeOnInputAccepted ==
    (m_direction # DirectionOutput /\ CanOpen) =>
        \A e \in Edge, fd \in FdSet :
            LET r == setEdgeInterrupt(Cur, chips, m_gpio, e, TRUE, TRUE, TRUE, fd)
            IN  /\ r.ret = TRUE
                /\ direction(r.s) = DirectionInput
                /\ edgeInterrupt(r.s) = e
                /\ r.s.line.kind = (IF e = EdgeNone THEN "input" ELSE "events")
                /\ r.s.line.edge = e

C5_Witness ==
    /\ lastOp = "setEdgeInterrupt"
    /\ lastArg = EdgeRising
    /\ lastRet = TRUE
    /\ m_direction = DirectionInput
    /\ m_edge = EdgeRising
    /\ line.kind = "events"
    /\ line.edge = EdgeRising

\* C6 as stated: after a successful setDirection(Input), edgeInterrupt()
\* returns EdgeNone.
C6_EdgeClearedOnInput ==
    (lastOp = "setDirection" /\ lastArg = DirectionInput /\ lastRet = TRUE)
        => edgeInterrupt(Cur) = EdgeNone

C8_InvalidDirectionRejected ==
    [][ (lastOp' = "setDirection" /\ lastArg' = DirectionInvalid)
        => (lastRet' = FALSE /\ kcalls' = << >>
            /\ HandleState' = HandleState) ]_vars

C8_Witness ==
    /\ lastOp = "setDirection"
    /\ lastArg = DirectionInvalid
    /\ lastRet = FALSE
    /\ m_direction = DirectionInput
    /\ line.kind = "events"

C10_EventFdOnlyOnEdgeInput ==
    lastOp = "eventFd" =>
        \/ lastRet = -1
        \/ (lastRet \in FdSet /\ m_direction = DirectionInput
            /\ m_edge # EdgeNone)

C10_Witness ==
    /\ lastOp = "eventFd"
    /\ lastRet \in FdSet
    /\ m_direction = DirectionInput
    /\ m_edge = EdgeBoth

(* ================================================================== *)
(* GpioMonitor: the owning thread calling enable(), disable(), value() *)
(* and the destructor, and the worker thread executing run().          *)
(* The worker's Gpio (inputGpio) lives in the handle variables.        *)
(* ================================================================== *)
\* notified transitions the value file lets pile up unread in a run
MaxUnread == 2

\* platforms of the monitor model: no controller at all, or one controller
MonChipConfigs == { << >> } \cup { c \in ChipConfigs : Len(c) = 1 }

\* Gpio::isAvailable: the chip iterator yields at least one controller
isAvailable(cs) == Len(cs) > 0

\* QThread::isRunning
isRunning(th) == th.running /\ ~th.inFinish

\* a Gpio as its constructor leaves it, on the line as it is
FreshGpio(s) ==
    [s EXCEPT !.m_direction = DirectionInvalid, !.m_edge = EdgeNone,
              !.m_activeLow = FALSE, !.m_chipName = "", !.m_lineOffset = -1,
              !.m_chip = FALSE, !.m_line = FALSE]

\* the handle variables take the fields of s
SetHandle(s) ==
    /\ m_direction' = s.m_direction
    /\ m_edge' = s.m_edge
    /\ m_activeLow' = s.m_activeLow
    /\ m_chipName' = s.m_chipName
    /\ m_lineOffset' = s.m_lineOffset
    /\ m_chip' = s.m_chip
    /\ m_line' = s.m_line
    /\ line' = s.line
    /\ phys' = s.phys

ghostVars == << unread, covered, events, enabledChanges >>

opVars == << prevWrite, lastOp, lastArg, lastRet, kcalls >>

\* the owning thread finished a call of the monitor's interface
Returned(op, ret) ==
    /\ lastOp' = op
    /\ lastRet' = ret
    /\ UNCHANGED << prevWrite, lastArg, kcalls >>

\* setEnabled that emits without storing the new state
setEnabled_noStore(m, enabled) == m

\* GpioMonitor::setEnabled
setEnabled(m, enabled) ==
    IF m.m_enabled = enabled THEN m ELSE [m EXCEPT !.m_enabled = enabled]

\* GpioMonitor::setEnabled: what it emits as enabledChanged
enabledChanged(m, enabled) ==
    IF m.m_enabled = enabled THEN << >> ELSE << setEnabled(m, enabled).m_enabled >>

\* the latest emission after a call of setEnabled
latestChange(m, enabled) ==
    IF enabledChanged(m, enabled) = << >> THEN enabledChanges
    ELSE enabledChanged(m, enabled)

(* ------------------------------------------------------------------ *)
(* GpioMonitor::run, the part before the loop: inputGpio is created,   *)
(* exported, made an input, given the edge mode and the polarity, and  *)
(* the value file is opened.  Any refusal returns from run(), which    *)
(* destroys inputGpio (Gpio::~Gpio calls unexportGpio).                *)
(* ------------------------------------------------------------------ *)
\* run() returns before the loop: inputGpio is destroyed
runFailed(s) == [armed |-> FALSE, s |-> unexportGpio(s).s]

\* ... valueFile.open
runOpenFile(a, fileOk) ==
    IF ~a.ret \/ ~fileOk THEN runFailed(a.s) ELSE [armed |-> TRUE, s |-> a.s]

\* ... inputGpio.setActiveLow(m_activeLow)
runSetActiveLow(i, m, fileOk) ==
    IF ~i.ret THEN runFailed(i.s)
    ELSE runOpenFile(setActiveLow(i.s, m.m_activeLow), fileOk)

\* ... inputGpio.setEdgeInterrupt(m_edge)
runSetEdge(d, cs, n, m, openOk, lineOk, grantEdge, fd, fileOk) ==
    IF ~d.ret THEN runFailed(d.s)
    ELSE runSetActiveLow(setEdgeInterrupt(d.s, cs, n, m.m_edge, openOk, lineOk,
                                          grantEdge, fd), m, fileOk)

\* ... inputGpio.setDirection(Gpio::DirectionInput)
runSetDirection(e, cs, n, m, openOk, lineOk, grantDir, grantEdge, fd, fileOk) ==
    IF ~e.ret THEN runFailed(e.s)
    ELSE runSetEdge(setDirection(e.s, cs, n, DirectionInput, openOk, lineOk,
                                 TRUE, grantDir),
                    cs, n, m, openOk, lineOk, grantEdge, fd, fileOk)

\* Gpio inputGpio(m_gpioNumber); inputGpio.exportGpio() ...
runSetup(s, cs, n, m, openOk, lineOk, grantDir, grantEdge, fd, fileOk) ==
    runSetDirection(exportGpio(FreshGpio(s), cs, n, openOk, lineOk),
                    cs, n, m, openOk, lineOk, grantDir, grantEdge, fd, fileOk)

\* the level the value file shows: the line's level as the kernel presents it
valueFileLevel(l, p) == gpiod_line_get_value(l, p)

\* the platform notifies a change to level v of a line requested for edges
edgeMatches(l, v) ==
    /\ l.kind = "events"
    /\ \/ l.edge = EdgeBoth
       \/ l.edge = EdgeRising /\ v = 1
       \/ l.edge = EdgeFalling /\ v = 0

\* the errors poll(2) can return for the worker's call
PollErrors == {"EINTR", "ENOMEM"}

\* the errors a read of the value file can return; ENODEV when the line's
\* device has gone
ReadErrors == {"EIO", "ENODEV"}

\* the errors that tell that the device has disappeared
DeviceRemoved == {"ENODEV"}

\* QMutexLocker without the wait for the mutex
lockable_always(mutex) == TRUE

\* QMutexLocker on a mutex: the constructor returns once the mutex is free
lockable(mutex) == mutex = "free"

\* the value file of run() is open
ValueFileOpen == wpc \in {"poll", "locked", "setValue", "emit"}

\* the monitor object has not been destroyed
ProcessAlive == opc \notin {"destroyed", "aborted"}

(* ------------------------------------------------------------------ *)
(* Worker thread                                                       *)
(* ------------------------------------------------------------------ *)
\* the thread begins: started() runs onThreadStarted in the worker
WorkerStarted ==
    /\ ProcessAlive
    /\ wpc = "started"
    /\ mon' = setEnabled(mon, TRUE)
    /\ enabledChanges' = latestChange(mon, TRUE)
    /\ wpc' = "setup"
    /\ UNCHANGED << button, cli, chips, m_gpio, HandleState, opVars, thread, opc, rc,
                    valueString, ioError, unread, covered, events >>

\* run() up to the loop
WorkerSetup ==
    /\ ProcessAlive
    /\ wpc = "setup"
    /\ \E openOk \in BOOLEAN, lineOk \in BOOLEAN, grantDir \in BOOLEAN,
          grantEdge \in BOOLEAN, fd \in {MaxFd}, fileOk \in BOOLEAN :
          LET r == runSetup(Cur, chips, m_gpio, mon, openOk, lineOk,
                            grantDir, grantEdge, fd, fileOk)
          IN  /\ SetHandle(r.s)
              /\ wpc' = IF r.armed THEN "poll" ELSE "finish"
              /\ thread' = IF r.armed THEN thread
                           ELSE [thread EXCEPT !.inFinish = TRUE]
    /\ unread' = 0
    /\ rc' = -1
    /\ ioError' = "none"
    /\ UNCHANGED << button, cli, chips, m_gpio, opVars, mon, opc, valueString, covered, events,
                    enabledChanges >>

\* poll() without a timeout and without an error return
WorkerPoll_blocking ==
    /\ ProcessAlive
    /\ wpc = "poll"
    /\ unread > 0
    /\ lockable(mon.m_stopMutex)
    /\ rc' = 1
    /\ wpc' = "locked"
    /\ mon' = [mon EXCEPT !.m_stopMutex = "worker"]
    /\ UNCHANGED << button, cli, chips, m_gpio, HandleState, opVars, thread, opc,
                    valueString, ioError, ghostVars >>

\* poll(fdset, 1, 100) returns: a pending notification, the timeout after
\* 100 ms, or an error; then the locker takes m_stopMutex
WorkerPoll ==
    /\ ProcessAlive
    /\ wpc = "poll"
    /\ \E r \in {-1, 0, 1} :
          /\ r = 1 => unread > 0
          /\ r = 0 => unread = 0
          /\ r >= 0 => lockable(mon.m_stopMutex)
          /\ rc' = r
          /\ ioError' \in (IF r < 0 THEN PollErrors ELSE {"none"})
          /\ wpc' = IF r < 0 THEN "exit" ELSE "locked"
          /\ mon' = IF r < 0 THEN mon ELSE [mon EXCEPT !.m_stopMutex = "worker"]
    /\ UNCHANGED << button, cli, chips, m_gpio, HandleState, opVars, thread, opc,
                    valueString, ghostVars >>

\* under m_stopMutex: stop, nothing to read, or seek and read the value file;
\* the result of the read is not looked at: a failed read leaves valueString
\* empty
WorkerCheck ==
    /\ ProcessAlive
    /\ wpc = "locked"
    /\ IF mon.m_stop
       THEN /\ wpc' = "exit"
            /\ mon' = [mon EXCEPT !.m_stopMutex = "free"]
            /\ UNCHANGED << valueString, ioError, unread, covered >>
       ELSE IF rc = 0
       THEN /\ wpc' = "poll"
            /\ mon' = [mon EXCEPT !.m_stopMutex = "free"]
            /\ UNCHANGED << valueString, ioError, unread, covered >>
       ELSE \E seekOk \in BOOLEAN, readErr \in {"none"} \cup ReadErrors :
              IF ~seekOk
              THEN /\ readErr = "none"
                   /\ wpc' = "poll"
                   /\ mon' = [mon EXCEPT !.m_stopMutex = "free"]
                   /\ UNCHANGED << valueString, ioError, unread, covered >>
              ELSE /\ wpc' = "setValue"
                   /\ valueString' = IF readErr # "none" THEN ""
                                      ELSE IF valueFileLevel(line, phys) = 0 THEN "0"
                                      ELSE "1"
                   /\ ioError' = readErr
                   /\ covered' = unread
                   /\ unread' = 0
                   /\ UNCHANGED mon
    /\ UNCHANGED << button, cli, chips, m_gpio, HandleState, opVars, thread, opc, rc, events,
                    enabledChanges >>

\* GpioMonitor::setValue: the locker takes m_valueMutex
WorkerSetValueLock ==
    /\ ProcessAlive
    /\ wpc = "setValue"
    /\ lockable(mon.m_valueMutex)
    /\ mon' = [mon EXCEPT !.m_valueMutex = "worker"]
    /\ wpc' = "emit"
    /\ UNCHANGED << button, cli, chips, m_gpio, HandleState, opVars, thread, opc, rc,
                    valueString, ioError, ghostVars >>

\* the value the worker hands to setValue for a string read from the file
readValue(str) == IF str = "0" THEN ValueLow ELSE ValueHigh

\* GpioMonitor::setValue: the emissions for a value
emitted(v) ==
    IF v = ValueLow THEN << FALSE >>
    ELSE IF v = ValueHigh THEN << TRUE >>
    ELSE << >>

\* the latest two of the emissions es
latest(es) == IF Len(es) > 2 THEN SubSeq(es, Len(es) - 1, Len(es)) ELSE es

\* setValue that emits only when the value differs from the cached one
WorkerEmit_dedup ==
    /\ ProcessAlive
    /\ wpc = "emit"
    /\ mon' = [mon EXCEPT !.m_value = readValue(valueString),
                          !.m_valueMutex = "free", !.m_stopMutex = "free"]
    /\ events' = IF readValue(valueString) = mon.m_value THEN events
                 ELSE latest(events \o emitted(readValue(valueString)))
    /\ valueString' = ""
    /\ ioError' = "none"
    /\ covered' = 0
    /\ wpc' = "poll"
    /\ UNCHANGED << button, cli, chips, m_gpio, HandleState, opVars, thread, opc, rc, unread,
                    enabledChanges >>

\* GpioMonitor::setValue: m_value is written and interruptOccured emitted;
\* both lockers are released at the end of the loop body
WorkerEmit ==
    /\ ProcessAlive
    /\ wpc = "emit"
    /\ mon' = [mon EXCEPT !.m_value = readValue(valueString),
                          !.m_valueMutex = "free", !.m_stopMutex = "free"]
    /\ events' = latest(events \o emitted(readValue(valueString)))
    /\ valueString' = ""
    /\ ioError' = "none"
    /\ covered' = 0
    /\ wpc' = "poll"
    /\ UNCHANGED << button, cli, chips, m_gpio, HandleState, opVars, thread, opc, rc, unread,
                    enabledChanges >>

\* run() returns: the value file is closed, inputGpio is destroyed
WorkerExit ==
    /\ ProcessAlive
    /\ wpc = "exit"
    /\ SetHandle(unexportGpio(Cur).s)
    /\ unread' = 0
    /\ ioError' = "none"
    /\ thread' = [thread EXCEPT !.inFinish = TRUE]
    /\ wpc' = "finish"
    /\ UNCHANGED << button, cli, chips, m_gpio, opVars, mon, opc, rc, valueString, covered, events,
                    enabledChanges >>

\* the thread ends: finished() runs onThreadFinished in the worker
WorkerFinished ==
    /\ ProcessAlive
    /\ wpc = "finish"
    /\ mon' = setEnabled(mon, FALSE)
    /\ enabledChanges' = latestChange(mon, FALSE)
    /\ thread' = [running |-> FALSE, inFinish |-> FALSE]
    /\ wpc' = "idle"
    /\ UNCHANGED << button, cli, chips, m_gpio, HandleState, opVars, opc, rc, valueString,
                    ioError, unread, covered, events >>

Worker ==
    \/ WorkerStarted
    \/ WorkerSetup
    \/ WorkerPoll
    \/ WorkerCheck
    \/ WorkerSetValueLock
    \/ WorkerEmit
    \/ WorkerExit
    \/ WorkerFinished

(* ------------------------------------------------------------------ *)
(* Owning thread                                                       *)
(* ------------------------------------------------------------------ *)
\* enable() that does not look at isRunning()
enable_noRunningCheck(m, th, cs) ==
    IF ~isAvailable(cs) THEN [ret |-> FALSE, m |-> m, start |-> FALSE]
    ELSE [ret |-> TRUE, m |-> [m EXCEPT !.m_stop = FALSE], start |-> TRUE]

\* GpioMonitor::enable: the return value, the members, and whether start()
\* is called
enable(m, th, cs) ==
    IF isRunning(th) THEN [ret |-> TRUE, m |-> m, start |-> FALSE]
    ELSE IF ~isAvailable(cs) THEN [ret |-> FALSE, m |-> m, start |-> FALSE]
    ELSE [ret |-> TRUE, m |-> [m EXCEPT !.m_stop = FALSE], start |-> TRUE]

\* disable() that flips the stop flag
disable_toggle(m) == [m EXCEPT !.m_stop = ~m.m_stop]

\* GpioMonitor::disable
disable(m) == IF m.m_stop THEN m ELSE [m EXCEPT !.m_stop = TRUE]

\* GpioMonitor::setEdge
setEdge(m, edge) == IF m.m_edge = edge THEN m ELSE [m EXCEPT !.m_edge = edge]

\* enable() with QThread::start: start() begins the thread unless it runs
\* already; a thread that is finishing is waited for first
MonEnable ==
    /\ opc = "idle"
    /\ LET r == enable(mon, thread, chips)
       IN  /\ r.start => (lockable(mon.m_stopMutex) /\ ~thread.inFinish)
           /\ mon' = r.m
           /\ IF r.start /\ ~thread.running
              THEN /\ thread' = [running |-> TRUE, inFinish |-> FALSE]
                   /\ wpc' = "started"
              ELSE UNCHANGED << thread, wpc >>
           /\ Returned("enable", r.ret)
    /\ UNCHANGED << button, cli, chips, m_gpio, HandleState, opc, rc, valueString, ioError, ghostVars >>

\* disable() that does not take m_stopMutex
MonDisable_unlocked ==
    /\ opc = "idle"
    /\ mon' = disable(mon)
    /\ Returned("disable", TRUE)
    /\ UNCHANGED << button, cli, chips, m_gpio, HandleState, thread, wpc, opc, rc,
                    valueString, ioError, ghostVars >>

MonDisable ==
    /\ opc = "idle"
    /\ lockable(mon.m_stopMutex)
    /\ mon' = disable(mon)
    /\ Returned("disable", TRUE)
    /\ UNCHANGED << button, cli, chips, m_gpio, HandleState, thread, wpc, opc, rc,
                    valueString, ioError, ghostVars >>

\* GpioMonitor::value: the locker takes m_valueMutex
MonValueLock ==
    /\ opc = "idle"
    /\ lockable(mon.m_valueMutex)
    /\ mon' = [mon EXCEPT !.m_valueMutex = "owner"]
    /\ opc' = "value"
    /\ UNCHANGED << button, cli, chips, m_gpio, HandleState, opVars, thread, wpc, rc,
                    valueString, ioError, ghostVars >>

\* GpioMonitor::value: m_value is returned and the mutex released
MonValueReturn ==
    /\ opc = "value"
    /\ mon' = [mon EXCEPT !.m_valueMutex = "free"]
    /\ opc' = "idle"
    /\ Returned("monitorValue", mon.m_value)
    /\ UNCHANGED << button, cli, chips, m_gpio, HandleState, thread, wpc, rc, valueString,
                    ioError, ghostVars >>

\* run() reads m_edge without a lock: the owner sets it while no worker runs
MonSetEdge ==
    /\ opc = "idle"
    /\ ~thread.running
    /\ \E e \in Edge : mon' = setEdge(mon, e)
    /\ Returned("setEdge", TRUE)
    /\ UNCHANGED << button, cli, chips, m_gpio, HandleState, thread, wpc, opc, rc,
                    valueString, ioError, ghostVars >>

\* GpioMonitor::~GpioMonitor: disable(), then wait(200) begins
MonDestroy ==
    /\ opc = "idle"
    /\ lockable(mon.m_stopMutex)
    /\ mon' = disable(mon)
    /\ opc' = "wait"
    /\ UNCHANGED << button, cli, chips, m_gpio, HandleState, opVars, thread, wpc, rc,
                    valueString, ioError, ghostVars >>

\* wait(200) returns: the thread has finished, or the 200 ms are over; the
\* QThread base is then destroyed, which ends the process when the thread
\* still runs
MonWaitReturn ==
    /\ opc = "wait"
    /\ \/ /\ ~thread.running
          /\ opc' = "destroyed"
       \/ /\ isRunning(thread)
          /\ opc' = "aborted"
    /\ Returned("destroy", ~thread.running)
    /\ UNCHANGED << button, cli, chips, m_gpio, HandleState, mon, thread, wpc, rc,
                    valueString, ioError, ghostVars >>

Owner ==
    \/ MonEnable
    \/ MonDisable
    \/ MonValueLock
    \/ MonValueReturn
    \/ MonSetEdge
    \/ MonDestroy
    \/ MonWaitReturn

(* ------------------------------------------------------------------ *)
(* Platform: the level of the line changes; a change that matches the  *)
(* edge mode of the request is notified on the open value file         *)
(* ------------------------------------------------------------------ *)
MonLineChange ==
    /\ ProcessAlive
    /\ phys' = 1 - phys
    /\ IF ValueFileOpen /\ edgeMatches(line, 1 - phys)
       THEN /\ unread < MaxUnread
            /\ unread' = unread + 1
       ELSE UNCHANGED unread
    /\ UNCHANGED << button, cli, chips, m_gpio, m_direction, m_edge, m_activeLow, m_chipName,
                    m_lineOffset, m_chip, m_line, line, opVars, mon, thread,
                    wpc, opc, rc, valueString, ioError, covered, events,
                    enabledChanges >>

(* ------------------------------------------------------------------ *)
(* The monitor's specification                                         *)
(* ------------------------------------------------------------------ *)
MonInit ==
    /\ chips \in MonChipConfigs
    /\ m_gpio \in {0, MaxGpio}
    /\ m_direction = DirectionInvalid
    /\ m_edge = EdgeNone
    /\ m_activeLow = FALSE
    /\ m_chipName = ""
    /\ m_lineOffset = -1
    /\ m_chip = FALSE
    /\ m_line = FALSE
    /\ line = FreeLine
    /\ phys \in {0, 1}
    /\ prevWrite = ValueInvalid
    /\ lastOp = "GpioMonitor"
    /\ lastArg = m_gpio
    /\ lastRet = TRUE
    /\ kcalls = << >>
    /\ MonitorConstructed
    /\ cli = NoCli
    /\ button = GpioButtonConstructed

MonNext ==
    \/ Worker
    \/ Owner
    \/ MonLineChange

MonSpec == MonInit /\ [][MonNext]_vars

\* fair scheduling: a worker thread that can run does run
MonFairSpec == MonSpec /\ WF_vars(Worker)

MonTypeOK ==
    /\ mon.m_edge \in Edge
    /\ mon.m_value \in Value
    /\ mon.m_stopMutex \in {"free", "worker"}
    /\ mon.m_valueMutex \in {"free", "owner", "worker"}
    /\ wpc \in {"idle", "started", "setup", "poll", "locked", "setValue", "emit",
                "blocked", "exit", "finish"}
    /\ opc \in {"idle", "value", "wait", "destroyed", "aborted"}
    /\ rc \in {-1, 0, 1}
    /\ ioError \in {"none"} \cup PollErrors \cup ReadErrors
    /\ valueString \in {"", "0", "1"}
    /\ unread \in 0..MaxUnread
    /\ covered \in 0..MaxUnread
    /\ Len(events) <= 2
    /\ enabledChanges \in {<< >>, << TRUE >>, << FALSE >>}
    /\ thread.running <=> wpc # "idle"

(* ------------------------------------------------------------------ *)
(* Properties of the monitor                                           *)
(* ------------------------------------------------------------------ *)
\* the boolean carried by the event for the string the worker has read
Carried == valueString # "0"

\* C11 as stated: every event that is delivered answers exactly one observed
\* (notified) transition, so that events and observed transitions correspond
\* one to one and in order, and value() equals the value of the last event.
C11_OneEventPerTransition ==
    /\ wpc = "emit" => covered = 1
    /\ events # << >> =>
          mon.m_value = (IF events[Len(events)] THEN ValueHigh ELSE ValueLow)

C13_EnableSynchronous ==
    (lastOp = "enable" /\ lastRet = TRUE) =>
        /\ m_line
        /\ line.kind \in {"input", "events"}
        /\ m_direction = DirectionInput

\* C14: enable() on a monitor whose worker runs returns true and changes
\* nothing: not the members (the stop flag included), not the thread, not the
\* worker's position, not its Gpio or the request on the line; and a request
\* on the line exists only while the one worker thread runs.
C14_EnableWhileRunning ==
    /\ [][ (MonEnable /\ isRunning(thread)) =>
              /\ lastRet' = TRUE
              /\ UNCHANGED << mon, thread, wpc, HandleState, rc, valueString,
                              ioError, ghostVars >> ]_vars
    /\ [](gpiod_line_is_requested(line) => (thread.running /\ wpc # "idle"))

\* C14 witness: enable() returned true on a worker that is in its loop with
\* the stop flag set, and left the flag as it was.
C14_Witness ==
    /\ lastOp = "enable"
    /\ lastRet = TRUE
    /\ mon.m_stop
    /\ wpc = "poll"
    /\ line.kind = "events"

\* C15 as stated: value() called after enable() returned true, while the
\* worker runs with the line armed, returns Low or High.
C15_Baseline ==
    (lastOp = "monitorValue" /\ ValueFileOpen) => lastRet \in {ValueLow, ValueHigh}

\* C16: from the return of disable() until an enable() clears the stop flag
\* no interruptOccured is emitted, whatever the worker was doing when
\* disable() was called and also when a transition is pending on the file.
C16_NoEventAfterDisable ==
    [][ mon.m_stop => (~WorkerEmit /\ events' = events) ]_vars

\* C16 witness: disable() has returned while a notified transition is still
\* unread on the value file of a worker in its loop.
C16_Witness ==
    /\ lastOp = "disable"
    /\ mon.m_stop
    /\ unread > 0
    /\ wpc \in {"poll", "locked"}

\* C17 as stated: when disable() or the destructor has returned, the worker
\* is no longer running.
C17_StopWaitsForWorker ==
    lastOp \in {"disable", "destroy"} => ~thread.running

\* the worker is gone: the thread has finished, the line is released and
\* enabled() is false
WorkerGone ==
    /\ wpc = "idle"
    /\ ~thread.running
    /\ ~gpiod_line_is_requested(line)
    /\ ~m_chip
    /\ ~mon.m_enabled

\* C18: once disable() has set the stop flag, and as long as no enable()
\* clears it again and the monitor object lives, a fairly scheduled worker
\* eventually leaves its loop (every poll() ends after 100 ms at the latest),
\* releases the line and reports enabled() = false.
C18_StopLiveness ==
    (mon.m_stop /\ ProcessAlive) ~> (~mon.m_stop \/ ~ProcessAlive \/ WorkerGone)

\* C18 witness: disable() found the worker in its loop (the worker left it at
\* the check of the stop flag after a poll that timed out), and the worker is
\* gone while the flag is still set.
C18_Witness ==
    /\ lastOp = "disable"
    /\ mon.m_stop
    /\ rc = 0
    /\ WorkerGone

\* C19: disable() always returns with the stop flag set and does nothing
\* else: it starts no worker, emits no event, leaves enabled() and the line
\* alone, and on a monitor whose flag is already set it changes nothing at
\* all; an enable() on an idle monitor afterwards clears the flag, starts the
\* worker and returns true.
C19_DisableIdempotent ==
    [][ /\ MonDisable =>
              /\ mon' = [mon EXCEPT !.m_stop = TRUE]
              /\ mon.m_stop => mon' = mon
              /\ UNCHANGED << thread, wpc, HandleState, rc, valueString, ioError, ghostVars >>
        /\ (MonEnable /\ ~thread.running /\ isAvailable(chips)) =>
              /\ lastRet' = TRUE
              /\ ~mon'.m_stop
              /\ thread'.running
              /\ wpc' = "started" ]_vars

\* C19 witness: disable() has returned on a monitor that was never enabled.
C19_Witness ==
    /\ lastOp = "disable"
    /\ mon.m_stop
    /\ wpc = "idle"
    /\ ~mon.m_enabled
    /\ mon.m_value = ValueInvalid
    /\ events = << >>
    /\ rc = -1

\* C20: value() and the worker's setValue() are never inside their critical
\* sections at the same time, and whoever is inside holds m_valueMutex.
C20_ValueMutualExclusion ==
    /\ ~(opc = "value" /\ wpc = "emit")
    /\ opc = "value" => mon.m_valueMutex = "owner"
    /\ wpc = "emit" => mon.m_valueMutex = "worker"

\* C20 witness: the owner is inside value() while the worker waits in
\* setValue() for m_valueMutex.
C20_Witness ==
    /\ opc = "value"
    /\ wpc = "setValue"
    /\ mon.m_valueMutex = "owner"


\* C21 as stated: a failure in the loop of run() ends the worker exactly when
\* it is of the class that tells that the device has disappeared.  A failed
\* seek or another failed read or poll leaves the worker in the loop, a
\* device-removed failure takes it out of the loop, and when the thread has
\* finished the monitor is not enabled.
C21_RunningFailures ==
    [][ /\ (ioError = "none" /\ ioError' \in DeviceRemoved) => wpc' = "exit"
        /\ (ioError = "none" /\ ioError' \notin DeviceRemoved \cup {"none"}) =>
               wpc' \in {"poll", "setValue"}
        /\ (wpc = "locked" /\ ~mon.m_stop /\ rc = 1) => wpc' \in {"poll", "setValue"}
        /\ (wpc = "finish" /\ wpc' = "idle") => ~mon'.m_enabled ]_vars

(* ------------------------------------------------------------------ *)
(* Properties of the chip resolution                                   *)
(* ------------------------------------------------------------------ *)
\* the controllers of cs whose range [base, base + ngpio) holds the number n
Covering(cs, n) ==
    { i \in 1..Len(cs) : cs[i].base <= n /\ n < cs[i].base + cs[i].ngpio }

\* the first of them in enumeration order
FirstCovering(cs, n) ==
    CHOOSE i \in Covering(cs, n) : \A j \in Covering(cs, n) : i <= j

\* C22 as stated: for a number that the range of some controller covers, the
\* resolution succeeds and yields that controller (the first one in
\* enumeration order whose range covers it) with the offset number - base.
C22_ResolvesCovered ==
    Covering(chips, m_gpio) # {} =>
        /\ lastOp = "exportGpio" => m_chipName # ""
        /\ m_chipName # "" =>
              /\ m_chipName = chips[FirstCovering(chips, m_gpio)].dev
              /\ m_lineOffset = m_gpio - chips[FirstCovering(chips, m_gpio)].base

\* C23 as stated: for a number outside the range of every controller the
\* resolution fails and exportGpio() returns false.
C23_UncoveredFails ==
    Covering(chips, m_gpio) = {} =>
        /\ m_chipName = ""
        /\ lastOp = "exportGpio" => lastRet = FALSE

(* ------------------------------------------------------------------ *)
(* Properties of exportGpio and unexportGpio                           *)
(* ------------------------------------------------------------------ *)
\* C24: exportGpio() on an opened handle returns true and changes nothing:
\* it makes no libgpiod call (no second open of the controller), and the
\* handle's fields and the line with its request, direction, edge mode and
\* polarity stay as they are.
C24_ExportIdempotent ==
    [][ (m_line /\ m_chip /\ ExportGpio) =>
            /\ lastRet' = TRUE
            /\ kcalls' = << >>
            /\ HandleState' = HandleState ]_vars

\* C24 witness: exportGpio() has returned on a handle that holds an event
\* request under inverted polarity, without a libgpiod call.
C24_Witness ==
    /\ lastOp = "exportGpio"
    /\ lastRet = TRUE
    /\ kcalls = << >>
    /\ m_line /\ m_chip
    /\ line.kind = "events"
    /\ m_edge = EdgeRising
    /\ m_activeLow

\* the libgpiod calls of the last operation leave a controller open
LeavesChipOpen ==
    /\ Called("chip_open", TRUE)
    /\ ~Called("chip_close", TRUE)

\* C25: a failed exportGpio() keeps nothing: whether it failed at the
\* resolution, at the open of the controller or at getting the line,
\* afterwards the handle has no controller and no line, the controller it
\* may have opened is closed again and the line carries no request; and an
\* unexportGpio() that follows returns true, makes no libgpiod call and
\* changes nothing.
C25_FailedExportKeepsNothing ==
    /\ []((lastOp = "exportGpio" /\ lastRet = FALSE) =>
            /\ ~m_chip
            /\ ~m_line
            /\ ~LeavesChipOpen
            /\ ~gpiod_line_is_requested(line))
    /\ [][ (lastOp = "exportGpio" /\ lastRet = FALSE /\ UnexportGpio) =>
              /\ lastRet' = TRUE
              /\ kcalls' = << >>
              /\ HandleState' = HandleState ]_vars

\* C25 witness: exportGpio() has failed at getting the line, after it had
\* opened the controller.
C25_Witness ==
    /\ lastOp = "exportGpio"
    /\ lastRet = FALSE
    /\ Called("chip_open", TRUE)
    /\ Called("chip_get_line", FALSE)

\* C26: unexportGpio() returns true from every state; after it direction()
\* is DirectionInvalid, edgeInterrupt() is EdgeNone and value() is
\* ValueInvalid; and a second unexportGpio() returns true, makes no libgpiod
\* call and leaves the handle and the line exactly as they are.
C26_UnexportIdempotent ==
    /\ [](lastOp = "unexportGpio" =>
            /\ lastRet = TRUE
            /\ direction(Cur) = DirectionInvalid
            /\ edgeInterrupt(Cur) = EdgeNone
            /\ \A readOk \in BOOLEAN : value(Cur, readOk).ret = ValueInvalid)
    /\ [][ UnexportGpio => lastRet' = TRUE ]_vars
    /\ [][ (lastOp = "unexportGpio" /\ UnexportGpio) =>
              /\ kcalls' = << >>
              /\ HandleState' = HandleState ]_vars

\* C26 witness: unexportGpio() has released a handle that held a request.
C26_Witness ==
    /\ lastOp = "unexportGpio"
    /\ Called("line_release", TRUE)
    /\ Called("chip_close", TRUE)
    /\ line = FreeLine

\* the successful calls of fn among the libgpiod calls cs
Count(cs, fn) == Cardinality({ i \in 1..Len(cs) : cs[i] = K(fn, TRUE) })

\* 1 for a true b, else 0
Held(b) == IF b THEN 1 ELSE 0

\* C27: the handle leaks nothing.  Over every operation, failed ones
\* included, the controllers it opens less those it closes are the change
\* of its holding a controller, and a request on the line is held by the
\* handle's line only; after unexportGpio() and after the destructor, which
\* releases as unexportGpio() does, the handle holds no controller and no
\* line and the line carries no request.
C27_NoLeak ==
    /\ [][ /\ Count(kcalls', "chip_open") - Count(kcalls', "chip_close")
                 = Held(m_chip') - Held(m_chip)
           /\ (gpiod_line_is_requested(line) /\ ~gpiod_line_is_requested(line'))
                 => Count(kcalls', "line_release") = 1 ]_vars
    /\ [](gpiod_line_is_requested(line) => (m_line /\ m_chip))
    /\ [](lastOp \in {"unexportGpio", "~Gpio"} =>
            /\ ~m_chip
            /\ ~m_line
            /\ ~gpiod_line_is_requested(line))
    /\ [][ DestroyGpio =>
              /\ kcalls' = unexportGpio(Cur).calls
              /\ line' = FreeLine ]_vars

\* C27 witness: the destructor has released the request of an output handle
\* and closed its controller.
C27_Witness ==
    /\ lastOp = "~Gpio"
    /\ kcalls = << K("line_release", TRUE), K("chip_close", TRUE) >>
    /\ prevWrite # ValueInvalid
    /\ line = FreeLine

\* C28 as stated: the resolved location is cached by the first successful
\* resolution and cleared by the release: after unexportGpio() the handle
\* holds no cached location and gpioDirectory() is empty.
C28_CacheClearedOnRelease ==
    /\ (m_line /\ m_chip) => (m_chipName # "" /\ m_lineOffset >= 0)
    /\ lastOp = "unexportGpio" =>
          /\ m_chipName = ""
          /\ gpioDirectory(Cur) = << >>

\* the last operation was an exportGpio() that failed
ExportFailed == lastOp = "exportGpio" /\ lastRet = FALSE

\* no controller resolves the handle's number
Unresolvable == ~resolveLine(Cur, chips, m_gpio).ret

\* C29: a handle whose exportGpio() has failed answers as one that was never
\* opened: direction() is DirectionInvalid; setValue of any value returns
\* false and value() returns ValueInvalid, both without a libgpiod call or a
\* change; and while no controller resolves the number, setDirection and
\* setEdgeInterrupt return false and leave the handle without controller
\* and line and the line without a request.
C29_FailedExportAsUnopened ==
    /\ [](ExportFailed => direction(Cur) = DirectionInvalid)
    /\ [][ (ExportFailed /\ lastOp' = "setValue") =>
              /\ lastRet' = FALSE
              /\ kcalls' = << >>
              /\ HandleState' = HandleState ]_vars
    /\ [][ (ExportFailed /\ lastOp' = "value") =>
              /\ lastRet' = ValueInvalid
              /\ kcalls' = << >>
              /\ HandleState' = HandleState ]_vars
    /\ [][ (ExportFailed /\ Unresolvable
              /\ lastOp' \in {"setDirection", "setEdgeInterrupt"}) =>
              /\ lastRet' = FALSE
              /\ ~LeavesChipOpen'
              /\ HandleState' = HandleState ]_vars

\* C29 witness: exportGpio() has failed on a number that no controller
\* resolves; every operation of the handle can follow.
C29_Witness ==
    /\ ExportFailed
    /\ Unresolvable
    /\ kcalls = << >>
    /\ ~m_line

(* ------------------------------------------------------------------ *)
(* nymea-gpio-tool: main() after the parser has processed the          *)
(* command line                                                        *)
(* ------------------------------------------------------------------ *)
EXIT_SUCCESS == 0
EXIT_FAILURE == 1

\* the largest int
IntMax == 2147483647

\* the texts given to -g, as sequences of characters
GpioTokens ==
    { << >>, << "0" >>, << "2" >>, << "+", "1" >>, << "-", "1" >>, << "x" >>,
      << "1", "x" >>,
      << "9", "9", "9", "9", "9", "9", "9", "9", "9", "9" >> }

\* the texts given to -s and to -i
ValueTokens == {"0", "1", "2", ""}
InterruptTokens == {"rising", "FALLING", "Both", "none", "edge"}

\* an option with each of the texts ts, or not on the command line
Option(ts) == {NotSet} \cup { [isSet |-> TRUE, text |-> x] : x \in ts }

\* the controller sets the tool may find, none included
CliChipConfigs == { << >> } \cup ChipConfigs

\* the decimal digits and their values
DigitChars == {"0", "1", "2", "3", "4", "5", "6", "7", "8", "9"}
DigitValue(c) ==
    CASE c = "0" -> 0 [] c = "1" -> 1 [] c = "2" -> 2 [] c = "3" -> 3
      [] c = "4" -> 4 [] c = "5" -> 5 [] c = "6" -> 6 [] c = "7" -> 7
      [] c = "8" -> 8 [] c = "9" -> 9

\* the number the digits of tok from position i on extend acc to; -1 when a
\* character is no digit or the number does not fit an int
RECURSIVE digitsValue(_, _, _)
digitsValue(tok, i, acc) ==
    IF i > Len(tok) THEN acc
    ELSE IF tok[i] \notin DigitChars THEN -1
    ELSE IF acc > (IntMax - DigitValue(tok[i])) \div 10 THEN -1
    ELSE digitsValue(tok, i + 1, acc * 10 + DigitValue(tok[i]))

\* QString::toInt(&ok): an optional sign and at least one digit, within int
toInt(tok) ==
    LET signed == Len(tok) > 0 /\ tok[1] \in {"-", "+"}
        digits == IF signed THEN Tail(tok) ELSE tok
        v == IF digits = << >> THEN -1 ELSE digitsValue(digits, 1, 0)
    IN  IF v < 0 THEN [ok |-> FALSE, value |-> 0]
        ELSE [ok |-> TRUE, value |-> IF tok[1] = "-" THEN 0 - v ELSE v]

\* QString::toLower on the texts given to -i
toLower(str) ==
    IF str = "FALLING" THEN "falling"
    ELSE IF str = "Both" THEN "both"
    ELSE str

\* the process ends with status code
exit(c, code) == [c EXCEPT !.pc = "exited", !.exitCode = code]

\* variant: every text given to -s other than "1" stands for low
verify_looseValue(c, cs) ==
    IF ~c.gpio.isSet THEN exit(c, EXIT_FAILURE)
    ELSE IF ~toInt(c.gpio.text).ok \/ toInt(c.gpio.text).value < 0
    THEN exit(c, EXIT_FAILURE)
    ELSE IF (c.interrupt.isSet \/ c.monitor) /\ c.value.isSet
    THEN exit(c, EXIT_FAILURE)
    ELSE IF c.interrupt.isSet
            /\ toLower(c.interrupt.text) \notin {"rising", "falling", "none", "both"}
    THEN exit(c, EXIT_FAILURE)
    ELSE IF ~isAvailable(cs) THEN exit(c, EXIT_FAILURE)
    ELSE [c EXCEPT !.pc = IF c.value.isSet THEN "export" ELSE "monitor",
                   !.gpioNumber = toInt(c.gpio.text).value,
                   !.edge = IF ~c.interrupt.isSet THEN EdgeBoth
                            ELSE IF toLower(c.interrupt.text) = "rising" THEN EdgeRising
                            ELSE IF toLower(c.interrupt.text) = "falling" THEN EdgeFalling
                            ELSE IF toLower(c.interrupt.text) = "none" THEN EdgeNone
                            ELSE EdgeBoth,
                   !.setValue = IF ~c.value.isSet THEN ValueInvalid
                                ELSE IF c.value.text = "1" THEN ValueHigh
                                ELSE ValueLow]

\* main(): the checks of the options and of the platform, up to the branch
\* on the mode
verify(c, cs) ==
    IF ~c.gpio.isSet THEN exit(c, EXIT_FAILURE)
    ELSE IF ~toInt(c.gpio.text).ok \/ toInt(c.gpio.text).value < 0
    THEN exit(c, EXIT_FAILURE)
    ELSE IF (c.interrupt.isSet \/ c.monitor) /\ c.value.isSet
    THEN exit(c, EXIT_FAILURE)
    ELSE IF c.interrupt.isSet
            /\ toLower(c.interrupt.text) \notin {"rising", "falling", "none", "both"}
    THEN exit(c, EXIT_FAILURE)
    ELSE IF c.value.isSet /\ c.value.text \notin {"1", "0"}
    THEN exit(c, EXIT_FAILURE)
    ELSE IF ~isAvailable(cs) THEN exit(c, EXIT_FAILURE)
    ELSE [c EXCEPT !.pc = IF c.value.isSet THEN "export" ELSE "monitor",
                   !.gpioNumber = toInt(c.gpio.text).value,
                   !.edge = IF ~c.interrupt.isSet THEN EdgeBoth
                            ELSE IF toLower(c.interrupt.text) = "rising" THEN EdgeRising
                            ELSE IF toLower(c.interrupt.text) = "falling" THEN EdgeFalling
                            ELSE IF toLower(c.interrupt.text) = "none" THEN EdgeNone
                            ELSE EdgeBoth,
                   !.setValue = IF ~c.value.isSet THEN ValueInvalid
                                ELSE IF c.value.text = "1" THEN ValueHigh
                                ELSE ValueLow]

\* a method of the tool's Gpio ran: its effects and its record
CliCall(op, arg, r) ==
    /\ SetHandle(r.s)
    /\ prevWrite' = LastWrite
    /\ lastOp' = op
    /\ lastArg' = arg
    /\ lastRet' = r.ret
    /\ kcalls' = r.calls

\* where main() goes after a method that returned ret
CliStep(ret, next) == cli' = IF ret THEN [cli EXCEPT !.pc = next]
                             ELSE exit(cli, EXIT_FAILURE)

CliVerify ==
    /\ cli.pc = "main"
    /\ cli' = verify(cli, chips)
    /\ UNCHANGED << chips, m_gpio, HandleState, opVars, monVars >>

\* new Gpio(gpioNumber); gpio->exportGpio()
CliExport ==
    /\ cli.pc = "export"
    /\ m_gpio' = cli.gpioNumber
    /\ \E openOk \in BOOLEAN, lineOk \in BOOLEAN :
          LET r == exportGpio(FreshGpio(Cur), chips, cli.gpioNumber, openOk, lineOk)
          IN  /\ CliCall("exportGpio", "", r)
              /\ CliStep(r.ret, "direction")
    /\ UNCHANGED << chips, monVars >>

\* gpio->setDirection(Gpio::DirectionOutput)
CliSetDirection ==
    /\ cli.pc = "direction"
    /\ \E openOk \in BOOLEAN, lineOk \in BOOLEAN, readOk \in BOOLEAN,
          grant \in BOOLEAN :
          LET r == setDirection(Cur, chips, m_gpio, DirectionOutput, openOk,
                                lineOk, readOk, grant)
          IN  /\ CliCall("setDirection", DirectionOutput, r)
              /\ CliStep(r.ret, "polarity")
    /\ UNCHANGED << chips, m_gpio, monVars >>

\* gpio->setActiveLow(activeLow), when -l is on the command line
CliSetActiveLow ==
    /\ cli.pc = "polarity"
    /\ IF cli.activeLow
       THEN LET r == setActiveLow(Cur, cli.activeLow)
            IN  /\ CliCall("setActiveLow", cli.activeLow, r)
                /\ CliStep(r.ret, "value")
       ELSE /\ cli' = [cli EXCEPT !.pc = "value"]
            /\ UNCHANGED << HandleState, opVars >>
    /\ UNCHANGED << chips, m_gpio, monVars >>

\* gpio->setValue(value)
CliSetValue ==
    /\ cli.pc = "value"
    /\ \E writeOk \in BOOLEAN :
          LET r == setValue(Cur, cli.setValue, writeOk)
          IN  /\ CliCall("setValue", cli.setValue, r)
              /\ CliStep(r.ret, "delete")
    /\ UNCHANGED << chips, m_gpio, monVars >>

\* delete gpio; return EXIT_SUCCESS
CliDelete ==
    /\ cli.pc = "delete"
    /\ CliCall("~Gpio", "", unexportGpio(Cur))
    /\ cli' = exit(cli, EXIT_SUCCESS)
    /\ UNCHANGED << chips, m_gpio, monVars >>

\* GpioMonitor::setActiveLow
GpioMonitor_setActiveLow(m, b) ==
    IF m.m_activeLow = b THEN m ELSE [m EXCEPT !.m_activeLow = b]

\* the monitor mode: new GpioMonitor(gpioNumber), setEdge, setActiveLow and
\* enable(); then main() enters the event loop
CliMonitor ==
    /\ cli.pc = "monitor"
    /\ m_gpio' = cli.gpioNumber
    /\ LET r == enable(GpioMonitor_setActiveLow(setEdge(mon, cli.edge), cli.activeLow),
                       thread, chips)
       IN  /\ mon' = r.m
           /\ IF r.start
              THEN /\ thread' = [running |-> TRUE, inFinish |-> FALSE]
                   /\ wpc' = "started"
              ELSE UNCHANGED << thread, wpc >>
           /\ CliStep(r.ret, "exec")
           /\ Returned("enable", r.ret)
    /\ UNCHANGED << button, chips, HandleState, opc, rc, valueString, ioError, ghostVars >>

\* the signals that the handler of catchUnixSignals answers with quit()
QuitSignals == {"SIGQUIT", "SIGINT", "SIGTERM", "SIGHUP"}

\* the exit status of a process that abort() ended
EXIT_ABORTED == 134

\* catchUnixSignals, the handler, while application.exec() runs: SIGSEGV exits
\* the process with EXIT_FAILURE, the other four call Application::quit()
CliSignal ==
    /\ cli.pc = "exec"
    /\ \E sig \in QuitSignals \cup {"SIGSEGV"} :
          IF sig = "SIGSEGV"
          THEN /\ cli' = exit(cli, EXIT_FAILURE)
               /\ opc' = "aborted"
          ELSE /\ cli' = [cli EXCEPT !.pc = "quit", !.quit = TRUE]
               /\ UNCHANGED opc
    /\ UNCHANGED << button, chips, m_gpio, HandleState, opVars, mon, thread, wpc, rc,
                    valueString, ioError, ghostVars >>

\* exec() leaves the event loop and emits aboutToQuit; the slot deletes the
\* monitor: GpioMonitor::~GpioMonitor calls disable() and starts wait(200)
CliAboutToQuit ==
    /\ cli.pc = "quit"
    /\ opc = "idle"
    /\ lockable(mon.m_stopMutex)
    /\ mon' = disable(mon)
    /\ opc' = "wait"
    /\ cli' = [cli EXCEPT !.pc = "delete"]
    /\ UNCHANGED << button, chips, m_gpio, HandleState, opVars, thread, wpc, rc,
                    valueString, ioError, ghostVars >>

\* wait(200) returns: the thread has finished, or the 200 ms are over; the
\* QThread base is destroyed, which aborts the process when the thread still
\* runs; otherwise main() returns what exec() returned, 0
CliReturn ==
    /\ cli.pc = "delete"
    /\ opc = "wait"
    /\ IF isRunning(thread)
       THEN /\ opc' = "aborted"
            /\ cli' = exit(cli, EXIT_ABORTED)
       ELSE /\ opc' = "destroyed"
            /\ cli' = exit(cli, EXIT_SUCCESS)
    /\ Returned("destroy", ~thread.running)
    /\ UNCHANGED << button, chips, m_gpio, HandleState, mon, thread, wpc, rc,
                    valueString, ioError, ghostVars >>

\* the worker of the monitor runs while main() is in exec() and after
CliWorker ==
    /\ cli.pc \in {"exec", "quit", "delete"}
    /\ Worker

\* the level of the monitored line changes while main() is in exec()
CliLineChange ==
    /\ cli.pc = "exec"
    /\ MonLineChange

CliInit ==
    /\ chips \in CliChipConfigs
    /\ m_gpio = -1
    /\ m_direction = DirectionInvalid
    /\ m_edge = EdgeNone
    /\ m_activeLow = FALSE
    /\ m_chipName = ""
    /\ m_lineOffset = -1
    /\ m_chip = FALSE
    /\ m_line = FALSE
    /\ line = FreeLine
    /\ phys \in {0, 1}
    /\ prevWrite = ValueInvalid
    /\ lastOp = "main"
    /\ lastArg = ""
    /\ lastRet = TRUE
    /\ kcalls = << >>
    /\ MonitorConstructed
    /\ \E g \in Option(GpioTokens), i \in Option(InterruptTokens),
          v \in Option(ValueTokens), m \in BOOLEAN, l \in BOOLEAN :
          cli = [NoCli EXCEPT !.pc = "main", !.gpio = g, !.interrupt = i,
                              !.value = v, !.monitor = m, !.activeLow = l]
    /\ button = GpioButtonConstructed

CliNext ==
    \/ CliVerify
    \/ CliExport
    \/ CliSetDirection
    \/ CliSetActiveLow
    \/ CliSetValue
    \/ CliDelete
    \/ CliMonitor

CliSpec == CliInit /\ [][CliNext]_vars

\* the tool started with --monitor, the line at low level, on a platform
\* without a controller or with one
CliMonitorInit ==
    /\ CliInit
    /\ cli.monitor
    /\ chips \in MonChipConfigs
    /\ phys = 0

CliMonitorNext ==
    \/ CliVerify
    \/ CliMonitor
    \/ CliSignal
    \/ CliAboutToQuit
    \/ CliReturn
    \/ CliWorker
    \/ CliLineChange

CliMonitorSpec == CliMonitorInit /\ [][CliMonitorNext]_vars

(* ------------------------------------------------------------------ *)
(* Properties of the command line tool                                 *)
(* ------------------------------------------------------------------ *)
\* the text given to -g is a decimal numeral: an optional sign and digits
Numeral(tok) ==
    LET digits == IF Len(tok) > 0 /\ tok[1] \in {"-", "+"} THEN Tail(tok) ELSE tok
    IN  /\ digits # << >>
        /\ \A k \in 1..Len(digits) : digits[k] \in DigitChars

\* the command line asks for the set-value mode
OneShot == cli.value.isSet

\* the level the line is driven to by a completed set-value operation
DrivenLevel == IF cli.activeLow THEN 1 - cli.setValue ELSE cli.setValue

\* the set-value operation has run to its end: the last call but one was the
\* successful setValue of the value asked for, which drove the line, and the
\* last one released the handle
Completed ==
    /\ lastOp = "~Gpio"
    /\ prevWrite = cli.setValue
    /\ cli.setValue = (IF cli.value.text = "1" THEN ValueHigh ELSE ValueLow)
    /\ cli.value.text \in {"0", "1"}
    /\ phys = DrivenLevel
    /\ ~m_chip /\ ~m_line /\ line = FreeLine

\* C30: in the set-value mode the tool exits with 0 exactly when the
\* operation has completed (export, direction output, the polarity if asked
\* for, and the write all succeeded).  It exits with a status other than 0
\* when -g is missing, is no numeral or is negative, when the text of -s is
\* neither 0 nor 1, when the text of -i is none of rising, falling, both,
\* none, when no GPIO is available, and when a step of the operation fails.
C30_OneShotExitStatus ==
    /\ []((cli.pc = "exited" /\ OneShot) => (cli.exitCode = EXIT_SUCCESS <=> Completed))
    /\ []((cli.pc = "exited" /\
             \/ ~cli.gpio.isSet
             \/ ~Numeral(cli.gpio.text)
             \/ cli.gpio.text[1] = "-"
             \/ cli.value.isSet /\ cli.value.text \notin {"0", "1"}
             \/ cli.interrupt.isSet
                  /\ cli.interrupt.text \notin {"rising", "falling", "both", "none",
                                                "FALLING", "Both"}
             \/ ~isAvailable(chips))
          => cli.exitCode # EXIT_SUCCESS)
    /\ []((cli.pc \notin {"main", "exited"}) =>
             /\ cli.gpio.isSet /\ Numeral(cli.gpio.text)
             /\ cli.gpioNumber >= 0
             /\ isAvailable(chips))
    /\ [][ (cli.pc \in {"export", "direction", "polarity", "value"}
              /\ cli'.pc # cli.pc /\ lastRet' = FALSE)
           => (cli'.pc = "exited" /\ cli'.exitCode # EXIT_SUCCESS) ]_vars

\* C30 witness: the tool has exited with 0 after it wrote high to an
\* active-low line, which it drove to the physical level 0.
C30_Witness ==
    /\ cli.pc = "exited"
    /\ cli.exitCode = EXIT_SUCCESS
    /\ Completed
    /\ cli.activeLow
    /\ cli.setValue = ValueHigh
    /\ phys = 0

(* ------------------------------------------------------------------ *)
(* Properties of the request on the line                               *)
(* ------------------------------------------------------------------ *)
\* the requests held on the line after the first i of the libgpiod calls cs,
\* when h were held before them
RECURSIVE HeldAfter(_, _, _)
HeldAfter(cs, i, h) ==
    IF i = 0 THEN h
    ELSE LET b == HeldAfter(cs, i - 1, h)
         IN  IF cs[i] = K("line_release", TRUE) THEN 0
             ELSE IF IsRequestCall(cs[i]) /\ cs[i].ok THEN b + 1
             ELSE b

\* C34: the handle holds at most one request on its line.  In every
\* operation each request call, granted or refused, is issued when no
\* request is held: one that was held has been released before it; and the
\* requests held after the calls of the operation are the request the line
\* carries, one at most.
C34_ReleaseBeforeRequest ==
    [][ /\ \A i \in 1..Len(kcalls') :
              IsRequestCall(kcalls'[i]) =>
                  HeldAfter(kcalls', i - 1, Held(gpiod_line_is_requested(line))) = 0
        /\ HeldAfter(kcalls', Len(kcalls'), Held(gpiod_line_is_requested(line)))
              = Held(gpiod_line_is_requested(line')) ]_vars

\* C34 witness: setEdgeInterrupt on a line that was requested has released
\* the request and then obtained the new one.
C34_Witness ==
    /\ lastOp = "setEdgeInterrupt"
    /\ kcalls = << K("line_release", TRUE), K("line_request_events", TRUE) >>
    /\ line.kind = "events"

\* C36 as stated: whenever direction() is Input or Output, the line is
\* requested with that direction, also after operations that returned false.
C36_DirectionIsHeld ==
    /\ direction(Cur) = DirectionOutput => (m_line /\ line.kind = "output")
    /\ direction(Cur) = DirectionInput => (m_line /\ line.kind \in {"input", "events"})

\* the logical value that is not v
Opposite(v) == IF v = ValueHigh THEN ValueLow ELSE ValueHigh

\* setActiveLow has just returned on an output handle whose last operation
\* before it was a successful setValue, and it has changed the polarity
ToggledAfterWrite ==
    /\ lastOp = "setValue" /\ lastRet = TRUE
    /\ lastOp' = "setActiveLow"
    /\ m_activeLow' # m_activeLow

\* setActiveLow returns true and changes the polarity flag only
SetActiveLowFrame ==
    lastOp' = "setActiveLow" =>
        /\ lastRet' = TRUE
        /\ m_activeLow' = lastArg'
        /\ kcalls' = << >>
        /\ direction(Cur') = direction(Cur)
        /\ edgeInterrupt(Cur') = edgeInterrupt(Cur)
        /\ << m_chipName, m_lineOffset, m_chip, m_line, line, phys >>' =
              << m_chipName, m_lineOffset, m_chip, m_line, line, phys >>

\* C40 as stated: setActiveLow(b) returns true and changes the polarity flag
\* only; on an output handle that last wrote X, the value() after a change of
\* the polarity returns the opposite of X.
C40_PolarityFrame ==
    [][ /\ SetActiveLowFrame
        /\ ToggledAfterWrite =>
              \A readOk \in BOOLEAN : value(Cur', readOk).ret = Opposite(lastArg) ]_vars

\* C40 amended: setActiveLow(b) returns true and changes the polarity flag
\* only; on an output handle that last wrote X, the value() after a change of
\* the polarity returns the opposite of X when the kernel read of the line
\* succeeds, and ValueInvalid when that read fails.
C40_PolarityFrameOnRead ==
    [][ /\ SetActiveLowFrame
        /\ ToggledAfterWrite =>
              /\ value(Cur', TRUE).ret = Opposite(lastArg)
              /\ value(Cur', FALSE).ret = ValueInvalid ]_vars

\* C40 witness: the polarity was changed right after a successful write of
\* X, and a read of the line now yields the opposite of X.
C40_Witness ==
    /\ lastOp = "setActiveLow"
    /\ prevWrite # ValueInvalid
    /\ line.kind = "output"
    /\ value(Cur, TRUE).ret = Opposite(prevWrite)

(* ------------------------------------------------------------------ *)
(* enabledChanged                                                      *)
(* ------------------------------------------------------------------ *)

\* this step emits enabledChanged(b)
Emitted(b) ==
    \/ WorkerStarted /\ enabledChanged(mon, TRUE) = << b >>
    \/ WorkerFinished /\ enabledChanged(mon, FALSE) = << b >>

\* C35: enabledChanged(b) is emitted only by a step that changes the enabled
\* state to b, and every change of the enabled state emits it; so an emitted
\* value differs from the one emitted before it, the first one is true, and
\* enabled() equals the value emitted last (false before the first).
C35_EnabledChangedAlternates ==
    /\ [](mon.m_enabled <=> enabledChanges = << TRUE >>)
    /\ [][ /\ \A b \in BOOLEAN :
                Emitted(b) => /\ mon.m_enabled # b
                              /\ mon'.m_enabled = b
                              /\ enabledChanges # << b >>
                              /\ enabledChanges = << >> => b
                              /\ enabledChanges' = << b >>
           /\ mon'.m_enabled # mon.m_enabled => Emitted(mon'.m_enabled)
           /\ enabledChanges' # enabledChanges =>
                  \E b \in BOOLEAN : Emitted(b) ]_vars

\* C35 witness: the monitor was enabled, its worker has finished and emitted
\* enabledChanged(false), and a second enable() has just started a new worker
\* that is about to emit enabledChanged(true) again.
C35_Witness ==
    /\ enabledChanges = << FALSE >>
    /\ ~mon.m_enabled
    /\ lastOp = "enable"
    /\ lastRet = TRUE
    /\ wpc = "started"

(* ------------------------------------------------------------------ *)
(* enable() after disable()                                            *)
(* ------------------------------------------------------------------ *)

\* C37 as stated: when enable() has returned true and neither disable() nor
\* the destructor is called afterwards, the worker keeps running: it does not
\* leave its loop at the test of the stop flag (failures of poll() apart),
\* whatever the worker was doing when enable() was called.
C37_EnableWinsOverDisable ==
    [][ (lastOp = "enable" /\ lastRet = TRUE /\ opc = "idle") =>
            ~(wpc = "locked" /\ wpc' = "exit") ]_vars

(* ------------------------------------------------------------------ *)
(* enabled() and the state of the line                                 *)
(* ------------------------------------------------------------------ *)

\* C38 as stated: whenever enabled() is true, the worker's Gpio is exported
\* and holds the line as an input with edge events, with the edge and the
\* polarity the monitor is configured with.
C38_EnabledMeansArmed ==
    mon.m_enabled =>
        /\ m_chip
        /\ m_line
        /\ line.kind = "events"
        /\ m_direction = DirectionInput
        /\ m_edge = mon.m_edge
        /\ m_activeLow = mon.m_activeLow

(* ------------------------------------------------------------------ *)
(* Handlers of interruptOccured that run in the worker                 *)
(* ------------------------------------------------------------------ *)

\* what a handler connected directly to interruptOccured calls on the monitor
Handlers == {"value", "disable"}

\* the mutex the locker of the called method takes
lockerOf(h) == IF h = "value" THEN "m_valueMutex" ELSE "m_stopMutex"

\* GpioMonitor::setValue with a directly connected handler: m_value is
\* written and interruptOccured emitted under m_valueMutex, inside the loop
\* body that holds m_stopMutex; the handler runs in the worker before the
\* emit returns and calls value() or disable(), whose locker waits for a
\* mutex that is not recursive.  The worker goes on when the call returns.
WorkerEmitHandled ==
    /\ ProcessAlive
    /\ wpc = "emit"
    /\ events' = latest(events \o emitted(readValue(valueString)))
    /\ \E h \in Handlers :
          LET m == [mon EXCEPT !.m_value = readValue(valueString)]
          IN  IF lockable(m[lockerOf(h)])
              THEN /\ mon' = [(IF h = "disable" THEN disable(m) ELSE m)
                                EXCEPT !.m_valueMutex = "free", !.m_stopMutex = "free"]
                   /\ valueString' = ""
                   /\ ioError' = "none"
                   /\ covered' = 0
                   /\ wpc' = "poll"
              ELSE /\ mon' = m
                   /\ wpc' = "blocked"
                   /\ UNCHANGED << valueString, ioError, covered >>
    /\ UNCHANGED << button, cli, chips, m_gpio, HandleState, opVars, thread, opc, rc, unread,
                    enabledChanges >>

HandlerNext ==
    \/ MonNext
    \/ WorkerEmitHandled

HandlerSpec == MonInit /\ [][HandlerNext]_vars

\* fair scheduling: a worker that can run does run, a worker that waits for
\* a mutex gets it when it is free again and again, and the owning thread
\* returns from value() once it holds the mutex
HandlerFairSpec ==
    /\ HandlerSpec
    /\ SF_vars(Worker \/ WorkerEmitHandled)
    /\ WF_vars(MonValueReturn)

\* C39 as stated: no thread blocks forever on one of the two mutexes: while
\* the process lives, a mutex that is held is released again, so that every
\* call of enable(), disable() and value(), from the owner or from a handler
\* of interruptOccured running in the worker, returns.
C39_EveryCallReturns ==
    /\ (mon.m_valueMutex # "free" /\ ProcessAlive) ~>
           (mon.m_valueMutex = "free" \/ ~ProcessAlive)
    /\ (mon.m_stopMutex # "free" /\ ProcessAlive) ~>
           (mon.m_stopMutex = "free" \/ ~ProcessAlive)
    /\ (wpc = "blocked" /\ ProcessAlive) ~> (wpc # "blocked" \/ ~ProcessAlive)

(* ------------------------------------------------------------------ *)
(* GpioButton                                                          *)
(*                                                                     *)
(* The button is driven by the interruptOccured(bool) of its monitor,  *)
(* delivered to onInterruptOccured in the thread of the button, and by *)
(* the timeout of its QTimer.  Time is counted in milliseconds.        *)
(* ------------------------------------------------------------------ *)

\* a press that long and longer is a click
ClickMin == 10

\* a press longer than that is no click
ClickMax == 500

\* QTime counts the milliseconds of one day
Day == 86400000

\* the time m_time.elapsed() may show when the time stops advancing
MaxElapsed == 510

\* the amounts by which the time advances
Steps == {1, 9, 240, 250, Day}

\* the arguments of setLongPressedTimeout
Timeouts == {100, DefaultLongPressedTimeout}

\* everything that is not the button
notButton == << chips, m_gpio, m_direction, m_edge, m_activeLow, m_chipName,
                m_lineOffset, m_chip, m_line, line, phys, prevWrite, lastOp,
                lastArg, lastRet, kcalls, mon, thread, wpc, opc, rc, valueString,
                ioError, unread, covered, events, enabledChanges, cli >>

\* QTime::elapsed of m_time: 0 for a time that was never started, and the
\* difference of two times of day otherwise
elapsed(b) == IF b.started THEN b.since % Day ELSE 0

\* onInterruptOccured whose release leaves the timer running
onInterruptOccured_noStop(b, level) ==
    IF level
    THEN [b EXCEPT !.emitted = << "pressed" >>,
                   !.timer = [active |-> TRUE,
                              singleShot |-> ~b.m_repeateLongPressed,
                              interval |-> b.m_longPressedTimeout,
                              left |-> b.m_longPressedTimeout],
                   !.started = TRUE, !.since = 0,
                   !.held = TRUE, !.longPressedCount = 0]
    ELSE [b EXCEPT !.emitted = IF elapsed(b) >= ClickMin /\ elapsed(b) <= ClickMax
                               THEN << "released", "clicked" >>
                               ELSE << "released" >>,
                   !.held = FALSE]

\* GpioButton::onInterruptOccured: a true event emits pressed(), starts the
\* timer with the configured mode and interval and restarts m_time; a false
\* event emits released(), stops the timer and emits clicked() when
\* m_time.elapsed() is 10 to 500
onInterruptOccured(b, level) ==
    IF level
    THEN [b EXCEPT !.emitted = << "pressed" >>,
                   !.timer = [active |-> TRUE,
                              singleShot |-> ~b.m_repeateLongPressed,
                              interval |-> b.m_longPressedTimeout,
                              left |-> b.m_longPressedTimeout],
                   !.started = TRUE, !.since = 0,
                   !.held = TRUE, !.longPressedCount = 0]
    ELSE [b EXCEPT !.emitted = IF elapsed(b) >= ClickMin /\ elapsed(b) <= ClickMax
                               THEN << "released", "clicked" >>
                               ELSE << "released" >>,
                   !.timer.active = FALSE, !.timer.left = 0,
                   !.held = FALSE]

\* GpioButton::onTimeout, with what QTimer does when it fires: a single shot
\* timer stops, another one starts its interval again
onTimeout(b) ==
    [b EXCEPT !.emitted = << "longPressed" >>,
              !.longPressedCount = @ + 1,
              !.timer.active = ~b.timer.singleShot,
              !.timer.left = IF b.timer.singleShot THEN 0 ELSE b.timer.interval]

\* GpioButton::disable: the monitor and the timer are deleted
disableButton(b) ==
    [b EXCEPT !.m_monitor = FALSE, !.m_timer = FALSE, !.timer = NoTimer,
              !.held = FALSE, !.emitted = << >>]

\* GpioButton::enable: disable(), then a new monitor; when its enable()
\* succeeds, a new timer with the configured mode and interval, not started
enableButton(b, ok) ==
    IF ok
    THEN [disableButton(b) EXCEPT
              !.m_monitor = TRUE, !.m_timer = TRUE,
              !.timer = [active |-> FALSE, singleShot |-> ~b.m_repeateLongPressed,
                         interval |-> b.m_longPressedTimeout, left |-> 0]]
    ELSE disableButton(b)

ButtonEnable ==
    /\ \E ok \in BOOLEAN : button' = enableButton(button, ok)
    /\ UNCHANGED notButton

ButtonDisable ==
    /\ button' = disableButton(button)
    /\ UNCHANGED notButton

\* the monitor's interruptOccured(bool) reaches the button
ButtonInterrupt(level) ==
    /\ button.m_monitor
    /\ button' = onInterruptOccured(button, level)
    /\ UNCHANGED notButton

\* the timer fires
ButtonTimeout ==
    /\ button.m_timer
    /\ button.timer.active
    /\ button.timer.left = 0
    /\ button' = onTimeout(button)
    /\ UNCHANGED notButton

\* the time advances by d milliseconds, not beyond the moment the timer fires
ButtonTick(d) ==
    /\ button.timer.active => d <= button.timer.left
    /\ IF d = Day THEN button.since < Day ELSE (button.since % Day) + d <= MaxElapsed
    /\ button' = [button EXCEPT
                      !.since = IF button.started THEN @ + d ELSE @,
                      !.timer.left = IF button.timer.active THEN @ - d ELSE @,
                      !.emitted = << >>]
    /\ UNCHANGED notButton

\* GpioButton::setRepeateLongPressed
ButtonSetRepeateLongPressed(b) ==
    /\ button' = [button EXCEPT !.m_repeateLongPressed = b, !.emitted = << >>]
    /\ UNCHANGED notButton

\* GpioButton::setLongPressedTimeout
ButtonSetLongPressedTimeout(t) ==
    /\ button' = [button EXCEPT !.m_longPressedTimeout = t, !.emitted = << >>]
    /\ UNCHANGED notButton

\* a button constructed for line 0, on a platform without or with a controller
ButtonInit ==
    /\ MonInit
    /\ m_gpio = 0
    /\ phys = 0

ButtonNext ==
    \/ ButtonEnable
    \/ ButtonDisable
    \/ \E level \in BOOLEAN : ButtonInterrupt(level)
    \/ ButtonTimeout
    \/ \E d \in Steps : ButtonTick(d)
    \/ \E b \in BOOLEAN : ButtonSetRepeateLongPressed(b)
    \/ \E t \in Timeouts : ButtonSetLongPressedTimeout(t)

ButtonSpec == ButtonInit /\ [][ButtonNext]_vars

(* ------------------------------------------------------------------ *)
(* Properties of the button                                            *)
(* ------------------------------------------------------------------ *)

\* the signal sig is among those the step's handler emitted
Emits(sig) == \E i \in 1..Len(button'.emitted) : button'.emitted[i] = sig

\* C32 as stated: a true event emits pressed() and nothing else; a false
\* event emits released(), followed by clicked() exactly when a pressed()
\* precedes and the time since it is 10 ms at least and 500 ms at most;
\* clicked() is emitted by no other step.
C32_ClickRule ==
    [][ /\ ButtonInterrupt(TRUE) => button'.emitted = << "pressed" >>
        /\ ButtonInterrupt(FALSE) =>
              button'.emitted =
                  IF /\ button.started
                     /\ button.since >= ClickMin
                     /\ button.since <= ClickMax
                  THEN << "released", "clicked" >>
                  ELSE << "released" >>
        /\ Emits("clicked") => ButtonInterrupt(FALSE) ]_vars

\* the longPressed() that are due for the press that is held: one for every
\* full interval since pressed(), one at most for a single shot timer; the one
\* of a timer that is about to fire is not yet counted
DueLongPressed(b) ==
    LET pending == IF b.timer.active /\ b.timer.left = 0 THEN 1 ELSE 0
        full == b.since \div b.timer.interval
    IN  (IF b.timer.singleShot /\ full > 1 THEN 1 ELSE full) - pending

C31_MonitorModeExit ==
    /\ [][ (cli.pc = "exec" /\ cli'.pc # "exec") => CliSignal ]_vars
    /\ []((cli.pc = "exited" /\ cli.quit) =>
              /\ cli.exitCode = EXIT_SUCCESS
              /\ opc = "destroyed"
              /\ ~thread.running
              /\ ~gpiod_line_is_requested(line))
====
